---- MODULE Spec2Model ----
(***************************************************************************)
(* Model of the address resolution engine of stevenblum/bbbs:              *)
(*   src/data_geocode/nominatim_search.py          (NominatimSearch)       *)
(*   src/data_geocode/nominatim_helpers/nominatim_result_check.py          *)
(*   src/data_geocode/data_add_geocode.py          (batch driver)          *)
(*                                                                         *)
(* Text values are sequences of one-character strings, so that the         *)
(* normalisations of the code (strip, casefold, regular expressions) are   *)
(* computed character by character.  Python's None and "" are both the     *)
(* empty sequence wherever the code reads a value through `x or ""`.       *)
(***************************************************************************)
EXTENDS Integers, Sequences, FiniteSets, TLC

VARIABLES
    vin,        \* SpecValidate: the candidate and expected values handed to the checker
    vout,       \* SpecValidate: the checker's return value, or NotRun
    st,         \* per resolution: the NominatimSearch instance and its position in search()
    cache,      \* the shared in-memory cache map: normalized key -> row
    cacheFile,  \* the persisted cache file: the sequence of rows written
    rows        \* the raw addresses to resolve, in input order

vars == <<vin, vout, st, cache, cacheFile, rows>>

-----------------------------------------------------------------------------
(* Characters and text helpers                                             *)

UpperChars == <<"A","B","C","D","E","F","G","H","I","J","K","L","M",
                "N","O","P","Q","R","S","T","U","V","W","X","Y","Z">>
LowerChars == <<"a","b","c","d","e","f","g","h","i","j","k","l","m",
                "n","o","p","q","r","s","t","u","v","w","x","y","z">>
Digits == {"0","1","2","3","4","5","6","7","8","9"}

Range(f) == {f[i] : i \in DOMAIN f}

IsUpper(c) == c \in Range(UpperChars)
IsLower(c) == c \in Range(LowerChars)
IsDigit(c) == c \in Digits
IsLetter(c) == IsUpper(c) \/ IsLower(c)
\* a regular-expression word character (\w)
IsWordChar(c) == IsLetter(c) \/ IsDigit(c) \/ c = "_"
\* str.split() / str.strip() whitespace
IsSpace(c) == c \in {" ", "\t", "\n"}

CasefoldChar(c) ==
    IF IsUpper(c) THEN LowerChars[CHOOSE i \in 1..26 : UpperChars[i] = c] ELSE c
UpperChar(c) ==
    IF IsLower(c) THEN UpperChars[CHOOSE i \in 1..26 : LowerChars[i] = c] ELSE c

Casefold(s) == [i \in 1..Len(s) |-> CasefoldChar(s[i])]
ToUpper(s) == [i \in 1..Len(s) |-> UpperChar(s[i])]

RECURSIVE StripLeft(_, _)
StripLeft(s, drop) ==
    IF s # <<>> /\ s[1] \in drop THEN StripLeft(Tail(s), drop) ELSE s

RECURSIVE StripRight(_, _)
StripRight(s, drop) ==
    IF s # <<>> /\ s[Len(s)] \in drop THEN StripRight(SubSeq(s, 1, Len(s) - 1), drop) ELSE s

\* str.strip(): leading and trailing whitespace removed
Strip(s) == StripRight(StripLeft(s, {" ", "\t", "\n"}), {" ", "\t", "\n"})
\* str.strip(chars)
StripChars(s, drop) == StripRight(StripLeft(s, drop), drop)

\* " ".join(s.split()): runs of whitespace become one space, none at the edges
RECURSIVE CollapseWs(_)
CollapseWs(s) ==
    IF s = <<>> THEN <<>>
    ELSE IF IsSpace(s[1]) THEN
        LET rest == StripLeft(s, {" ", "\t", "\n"})
            tailc == CollapseWs(rest)
        IN  tailc
    ELSE
        LET t == Tail(s)
        IN  IF t # <<>> /\ IsSpace(t[1])
            THEN LET more == CollapseWs(t)
                 IN  IF more = <<>> THEN <<s[1]>> ELSE <<s[1], " ">> \o more
            ELSE <<s[1]>> \o CollapseWs(t)

\* `needle in hay` for Python strings
Contains(hay, needle) ==
    \E i \in 1..(Len(hay) - Len(needle) + 1) : SubSeq(hay, i, i + Len(needle) - 1) = needle

Max2(a, b) == IF a >= b THEN a ELSE b

-----------------------------------------------------------------------------
(* nominatim_result_check.py: the acceptance check of one candidate        *)

\* SimpleCfg.max_linear_m = 1609.34 m, held in centimetres
max_linear_cm == 160934
\* SimpleCfg.min_place_rank
min_place_rank == 26

\* Python's None where the code holds an optional number
NoneInt == 0 - 1

\* the entries of _US_STATE_ABBR_TO_NAME for the two-state service area
US_STATE_ABBR_TO_NAME ==
    [abbr \in {<<"R","I">>, <<"M","A">>} |->
        IF abbr = <<"R","I">>
        THEN <<"R","h","o","d","e"," ","I","s","l","a","n","d">>
        ELSE <<"M","a","s","s","a","c","h","u","s","e","t","t","s">>]

\* re.search(r"\b(\d{5})(?:-\d{4})?\b", text): group 1 of the leftmost match.
\* After five digits the optional extension is tried first; when the boundary
\* after it fails the matcher backtracks to the bare five digits, where the
\* boundary holds iff the next character is no word character.
Zip5MatchAt(s, i) ==
    /\ i + 4 <= Len(s)
    /\ \A k \in i..(i + 4) : IsDigit(s[k])
    /\ (i = 1 \/ ~IsWordChar(s[i - 1]))
    /\ \/ i + 4 = Len(s)
       \/ ~IsWordChar(s[i + 5])

_normalize_zip5(value) ==
    LET text == Strip(value)
        hits == {i \in 1..Len(text) : Zip5MatchAt(text, i)}
    IN  IF text = <<>> \/ hits = {} THEN <<>>
        ELSE LET i == CHOOSE j \in hits : \A k \in hits : j <= k
             IN  SubSeq(text, i, i + 4)

\* casefold, every run outside [a-z0-9] becomes one space, edges trimmed
_normalize_text(value) ==
    LET text == Casefold(Strip(value))
        spaced == [i \in 1..Len(text) |->
                      IF IsLower(text[i]) \/ IsDigit(text[i]) THEN text[i] ELSE " "]
    IN  CollapseWs(spaced)

_STATE_NORMALIZED_TO_ABBR(normalized) ==
    LET hits == {abbr \in DOMAIN US_STATE_ABBR_TO_NAME :
                    \/ _normalize_text(abbr) = normalized
                    \/ _normalize_text(US_STATE_ABBR_TO_NAME[abbr]) = normalized}
    IN  IF hits = {} THEN <<>> ELSE CHOOSE abbr \in hits : TRUE

\* re.search(r"\bUS[-\s]([A-Za-z]{2})\b", raw, re.IGNORECASE) matching at i
IsoMatchAt(s, i) ==
    /\ i + 4 <= Len(s)
    /\ (i = 1 \/ ~IsWordChar(s[i - 1]))
    /\ CasefoldChar(s[i]) = "u"
    /\ CasefoldChar(s[i + 1]) = "s"
    /\ (s[i + 2] = "-" \/ IsSpace(s[i + 2]))
    /\ IsLetter(s[i + 3])
    /\ IsLetter(s[i + 4])
    /\ (i + 4 = Len(s) \/ ~IsWordChar(s[i + 5]))

_normalize_state(value) ==
    LET raw == Strip(value)
        isoHits == {i \in 1..Len(raw) : IsoMatchAt(raw, i)}
        isoCand == IF isoHits = {} THEN <<>>
                   ELSE LET i == CHOOSE j \in isoHits : \A k \in isoHits : j <= k
                        IN  ToUpper(SubSeq(raw, i + 3, i + 4))
        normalized == _normalize_text(raw)
        mapped == _STATE_NORMALIZED_TO_ABBR(normalized)
    IN  IF raw = <<>> THEN <<>>
        ELSE IF isoCand \in DOMAIN US_STATE_ABBR_TO_NAME THEN isoCand
        ELSE IF normalized = <<>> THEN <<>>
        ELSE IF mapped # <<>> THEN mapped
        ELSE IF Len(normalized) = 2 /\ ToUpper(normalized) \in DOMAIN US_STATE_ABBR_TO_NAME
             THEN ToUpper(normalized)
        ELSE normalized

_is_city_level_match(expected_town, value) ==
    LET expected_norm == _normalize_text(expected_town)
        candidate_norm == _normalize_text(value)
    IN  /\ expected_norm # <<>>
        /\ candidate_norm # <<>>
        /\ \/ candidate_norm = expected_norm
           \/ Contains(<<" ">> \o candidate_norm \o <<" ">>,
                       <<" ">> \o expected_norm \o <<" ">>)

\* _CITY_LEVEL_KEYS, in order
CITY_LEVEL_KEYS == <<"city", "town", "village">>

\* the keys whose value matches, in _CITY_LEVEL_KEYS order
_city_match_from_address_levels(expected_town, address) ==
    SelectSeq(CITY_LEVEL_KEYS, LAMBDA key : _is_city_level_match(expected_town, address[key]))

\* A bounding box is absent or unparsable (ok = FALSE), or four parsable
\* corners; the two haversine edge lengths of the code (north-south along the
\* west edge, east-west at the middle latitude) are carried in centimetres.
_bbox_max_dim_m(bbox) ==
    IF ~bbox.ok THEN NoneInt ELSE Max2(bbox.ns, bbox.ew)

_denylisted_class_type(res) ==
    \/ res.class = "boundary"
    \/ /\ res.class = "place"
       /\ res.type \in {"postcode", "city", "town", "village", "hamlet", "suburb",
                         "neighbourhood"}

\* address.get("state") or .get("state_code") or .get("ISO3166-2-lvl4") or
\* .get("ISO3166-2-lvl6")
ResultState(address) ==
    IF address.state # <<>> THEN address.state
    ELSE IF address.state_code # <<>> THEN address.state_code
    ELSE IF address.iso_lvl4 # <<>> THEN address.iso_lvl4
    ELSE address.iso_lvl6

\* Variants of the two definitions below, for comparison: the rank check
\* reported ahead of the class/type check, and a location check that takes a
\* town match without a state match.
ReasonsRankFirst(broad, rank, bbox, location) == rank \o broad \o bbox \o location
LocationMatchTownOnly(zip_match, town_match, state_match) == zip_match \/ town_match

\* reasons.append in the order of the checks: class/type, place rank, bounding
\* box, location
Reasons(broad, rank, bbox, location) == broad \o rank \o bbox \o location

\* zip_match or (town_match and state_match)
LocationMatch(zip_match, town_match, state_match) ==
    zip_match \/ (town_match /\ state_match)

\* the checks of nominatim_result_check over the normalized values
ResultDecision(denylisted, pr_int, bbox_dim, expected_zip5, result_zip5, town_match_keys, expected_state_norm, result_state_norm) ==
    LET zip_match == expected_zip5 # <<>> /\ result_zip5 # <<>> /\ expected_zip5 = result_zip5
        town_match == Len(town_match_keys) > 0
        state_match == /\ expected_state_norm # <<>>
                       /\ result_state_norm # <<>>
                       /\ expected_state_norm = result_state_norm
        location_match == LocationMatch(zip_match, town_match, state_match)
        reasons ==
            Reasons(IF denylisted THEN <<"BROAD_CLASS_TYPE">> ELSE <<>>,
                    IF pr_int # NoneInt /\ pr_int < min_place_rank
                    THEN <<"PLACE_RANK_TOO_LOW">> ELSE <<>>,
                    IF bbox_dim = NoneInt THEN <<"MISSING_BBOX">>
                    ELSE IF bbox_dim > max_linear_cm THEN <<"TOO_LONG_FEATURE">>
                    ELSE <<>>,
                    IF ~location_match THEN <<"ZIP_OR_CITY_STATE_MISMATCH">> ELSE <<>>)
    IN  [accepted |-> reasons = <<>>,
         reasons |-> reasons,
         diag |-> [place_rank |-> pr_int,
                   bbox_max_dim_m |-> bbox_dim,
                   expected_zip5 |-> expected_zip5,
                   result_zip5 |-> result_zip5,
                   zip_match |-> zip_match,
                   city_match |-> town_match,
                   city_match_keys |-> town_match_keys,
                   state_match |-> state_match,
                   location_match |-> location_match,
                   reasons |-> reasons]]

nominatim_result_check(res, expected_zip, expected_town, expected_state) ==
    ResultDecision(_denylisted_class_type(res),
                   res.place_rank,
                   _bbox_max_dim_m(res.boundingbox),
                   _normalize_zip5(expected_zip),
                   _normalize_zip5(res.address.postcode),
                   _city_match_from_address_levels(expected_town, res.address),
                   _normalize_state(expected_state),
                   _normalize_state(ResultState(res.address)))

-----------------------------------------------------------------------------
(* NominatimSearch: the instance and its helpers                           *)

\* NominatimSearch.__init__: fuzzy_threshold
fuzzy_threshold == 80

T_2 == <<"2">>
T_Main == <<"M","a","i","n">>
T_Street == <<"S","t","r","e","e","t">>
T_Jamestown == <<"J","a","m","e","s","t","o","w","n">>
T_Newport == <<"N","e","w","p","o","r","t">>
T_RI == <<"R","I">>
T_MA == <<"M","A">>
T_RhodeIsland == <<"R","h","o","d","e"," ","I","s","l","a","n","d">>
T_02835 == <<"0","2","8","3","5">>
T_02840 == <<"0","2","8","4","0">>

\* the components of the tags the cascade reads; <<>> is an absent tag
NoTags ==
    [AddressNumber |-> <<>>, StreetName |-> <<>>, StreetNamePostType |-> <<>>,
     PlaceName |-> <<>>, StateName |-> <<>>, ZipCode |-> <<>>,
     OccupancyType |-> <<>>, OccupancyIdentifier |-> <<>>,
     SubaddressType |-> <<>>, SubaddressIdentifier |-> <<>>]

\* one entry of search_metadata["search_details"]
SearchDetail(search_name, attempted, result_status, error, number_results, result_check, result_check_reason, accepted_result_index, results) ==
    [search_name |-> search_name,
     attempted |-> attempted,
     result_status |-> result_status,
     error |-> error,
     number_results |-> number_results,
     result_check |-> result_check,
     result_check_reason |-> result_check_reason,
     accepted_result_index |-> accepted_result_index,
     results |-> results]

_build_skipped_search_detail(search_name, reason) ==
    SearchDetail(search_name, FALSE, "skipped", <<>>, 0, "none", reason, NoneInt, <<>>)

\* reset() followed by the initialisation at the head of search().  cache_row is
\* process_row's return value; calls (the external calls issued, in order),
\* done_before (the resolutions that had returned when this one began) and the
\* record of the tagging stage (tag_calls, tag_results, tag_failed, expanded,
\* reverse_response) are history kept for the properties.
reset ==
    [pc |-> "queued",
     raw_address |-> <<>>,
     input |-> <<>>,
     tags |-> NoTags,
     query |-> <<>>,
     latitude |-> <<>>,
     longitude |-> <<>>,
     nominatim_address |-> <<>>,
     method |-> "",
     error |-> <<>>,
     response |-> <<>>,
     result_metadata |-> <<>>,
     postcode_lookup_error |-> "",
     cache_entry_missing_metadata |-> FALSE,
     bad_address_lookup_used |-> FALSE,
     address_cache_used |-> FALSE,
     search_details |-> <<>>,
     search_method_accepted |-> "none",
     search_successful |-> FALSE,
     final_error |-> <<>>,
     primary_error |-> <<>>,
     street_match |-> <<>>,
     cache_row |-> <<>>,
     fix_address_number_non_numeric |-> FALSE,
     tag_calls |-> <<>>,
     tag_results |-> <<>>,
     tag_failed |-> FALSE,
     expanded |-> NoTags,
     reverse_response |-> <<>>,
     calls |-> <<>>,
     done_before |-> {}]

\* str.strip().casefold(), whitespace collapsed, then .strip(" ,")
_normalize_cache_key(value) ==
    StripChars(CollapseWs(Casefold(Strip(value))), {" ", ","})

\* nominatim_search_bad_address_lookup.csv: normalized raw address -> replacement
bad_address_lookup_map ==
    [key \in {<<"x">>} |-> <<"b">>]

_lookup_bad_address(raw_address) ==
    IF _normalize_cache_key(raw_address) \in DOMAIN bad_address_lookup_map
    THEN bad_address_lookup_map[_normalize_cache_key(raw_address)]
    ELSE <<>>

\* Variant for comparison: a lookup that never finds an entry
LookupMisses(map, raw_address) == <<>>

\* dict.get(key) or dict.get(raw_address): <<row>>, or <<>> when neither is stored
_lookup_address_cache(map, raw_address) ==
    LET key == _normalize_cache_key(raw_address)
    IN  IF key \in DOMAIN map THEN <<map[key]>>
        ELSE IF raw_address \in DOMAIN map THEN <<map[raw_address]>>
        ELSE <<>>

\* the row written for a finished resolution (_save_address_cache_entry and
\* _build_cache_row build the same columns)
_build_cache_row(s) ==
    [address_raw |-> s.raw_address,
     address_geocode |-> IF s.query # <<>> THEN s.query ELSE <<s.raw_address>>,
     address_nominatim |-> s.nominatim_address,
     latitude |-> s.latitude,
     longitude |-> s.longitude,
     method |-> s.method,
     error |-> s.error,
     result_metadata |-> s.result_metadata,
     search_metadata |-> [bad_address_lookup_used |-> s.bad_address_lookup_used,
                          address_cache_used |-> s.address_cache_used,
                          search_details |-> s.search_details,
                          search_method_accepted |-> s.search_method_accepted,
                          search_successful |-> s.search_successful,
                          final_error |-> s.final_error]]

\* Variant for comparison: only rows with coordinates are stored
StoreFound(map, key, row) ==
    IF row.latitude = <<>> THEN map
    ELSE [k \in DOMAIN map \cup {key} |-> IF k = key THEN row ELSE map[k]]

\* map with map[key] = row
Store(map, key, row) ==
    [k \in DOMAIN map \cup {key} |-> IF k = key THEN row ELSE map[k]]

_apply_cached_result(s, cached_row) ==
    LET sm == cached_row.search_metadata
    IN  [s EXCEPT
            !.latitude = Strip(cached_row.latitude),
            !.longitude = Strip(cached_row.longitude),
            !.nominatim_address = cached_row.address_nominatim,
            !.query = IF cached_row.address_geocode # <<>>
                      THEN cached_row.address_geocode ELSE <<s.raw_address>>,
            !.method = cached_row.method,
            !.error = cached_row.error,
            !.response = <<>>,
            !.result_metadata = cached_row.result_metadata,
            !.bad_address_lookup_used = sm.bad_address_lookup_used,
            !.search_details = sm.search_details,
            !.search_method_accepted = sm.search_method_accepted,
            !.search_successful = sm.search_successful,
            !.final_error = sm.final_error,
            !.address_cache_used = TRUE,
            \* tag_metadata and search_metadata of a stored row are never empty
            !.cache_entry_missing_metadata = (cached_row.result_metadata = <<>>)]

_build_street_value(tags) ==
    IF tags.StreetName # <<>> /\ tags.StreetNamePostType # <<>>
    THEN tags.StreetName \o <<" ">> \o tags.StreetNamePostType
    ELSE IF tags.StreetName # <<>> THEN tags.StreetName
    ELSE tags.StreetNamePostType

\* the non-empty values of the tags named by spec, in the fixed order of the code
_build_query(tags, spec) ==
    LET part(tag, value) == IF tag \in spec /\ value # <<>> THEN <<value>> ELSE <<>>
    IN  part("AddressNumber", tags.AddressNumber)
        \o part("StreetName", _build_street_value(tags))
        \o part("PlaceName", tags.PlaceName)
        \o part("StateName", tags.StateName)
        \o part("ZipCode", tags.ZipCode)

_append_search_detail(s, search_detail) ==
    [s EXCEPT !.search_details = Append(@, search_detail)]

-----------------------------------------------------------------------------
(* NominatimSearch._request: one search-service query and its validation   *)

Min(S) == CHOOSE x \in S : \A y \in S : x <= y

\* "a | b": the texts of a list joined by " | "
RECURSIVE JoinBar(_)
JoinBar(texts) ==
    IF texts = <<>> THEN <<>>
    ELSE IF Len(texts) = 1 THEN texts[1]
    ELSE texts[1] \o <<"|">> \o JoinBar(Tail(texts))

\* the state argument _request hands to nominatim_result_check: the call
\* passes expected_zip and expected_town only, so the parameter keeps its
\* default ""
RequestExpectedState(tags) == <<>>

\* the return of _request for a failed query or an empty answer
RequestFailed(s, search_name, result_status, error) ==
    [s |-> [s EXCEPT !.error = error],
     ok |-> FALSE,
     error |-> error,
     detail |-> SearchDetail(search_name, TRUE, result_status, error, 0, "none", <<>>,
                             NoneInt, <<>>)]

\* the validation loop of _request over a non-empty answer: check[i] is the
\* decision on candidate i, acc the first accepted one (0: none; the loop
\* breaks there)
RequestValidated(s, search_name, data, check, acc) ==
    LET n == Len(data)
        results == [i \in 1..(IF acc = 0 THEN n ELSE acc) |->
                       [result_index |-> i - 1,
                        accepted |-> check[i].accepted,
                        rejection_reason |-> check[i].reasons]]
        rejected_reason_texts ==
            JoinBar([i \in 1..(IF acc = 0 THEN n ELSE acc - 1) |-> check[i].reasons])
    IN  IF acc = 0 THEN
            [s |-> [s EXCEPT !.error = <<"No acceptable results; rejected_reasons=">>
                                           \o rejected_reason_texts,
                             !.response = data],
             ok |-> FALSE,
             error |-> <<"No acceptable results; rejected_reasons=">> \o rejected_reason_texts,
             detail |-> SearchDetail(search_name, TRUE, "returned",
                                     <<"No acceptable results; rejected_reasons=">>
                                         \o rejected_reason_texts,
                                     n, "rejected", rejected_reason_texts, NoneInt, results)]
        ELSE
            [s |-> [s EXCEPT !.response = data,
                             !.result_metadata =
                                 <<[search_name |-> search_name,
                                    search_number_results |-> n,
                                    accepted_result_index |-> acc - 1,
                                    lat |-> data[acc].lat,
                                    lon |-> data[acc].lon,
                                    display_name |-> data[acc].display_name]>>,
                             !.latitude = data[acc].lat,
                             !.longitude = data[acc].lon,
                             !.nominatim_address = data[acc].display_name,
                             !.error = <<>>],
             ok |-> TRUE,
             error |-> <<>>,
             detail |-> SearchDetail(search_name, TRUE, "returned", <<>>, n,
                                     "accepted", <<>>, acc - 1, results)]

\* Variant for comparison: the last index the checks accept
LastAccepted(check) ==
    IF \A i \in DOMAIN check : ~check[i].accepted THEN 0
    ELSE CHOOSE i \in DOMAIN check :
             check[i].accepted /\ \A j \in DOMAIN check : check[j].accepted => j <= i

\* the first index the checks accept, 0 when there is none
FirstAccepted(check) ==
    IF \A i \in DOMAIN check : ~check[i].accepted THEN 0
    ELSE Min({i \in DOMAIN check : check[i].accepted})

RequestChecked(s, search_name, data, check) ==
    RequestValidated(s, search_name, data, check, FirstAccepted(check))

\* resp is what requests.get returned: kind "timeout", "error" (any other
\* RequestException) or "ok" with the JSON list in data.
\* Result: the instance afterwards, and the returned (ok, error, search_detail).
_request(s, query, search_name, expected_zip, expected_town, resp) ==
    LET s0 == [s EXCEPT !.query = query, !.method = search_name,
                        !.calls = Append(@, search_name)]
    IN  IF resp.kind = "timeout" THEN RequestFailed(s0, search_name, "error", <<"Timeout">>)
        ELSE IF resp.kind = "error"
        THEN RequestFailed(s0, search_name, "error", <<"RequestException">>)
        ELSE IF resp.data = <<>>
        THEN RequestFailed([s0 EXCEPT !.response = resp.data], search_name, "none_found",
                           <<"No results">>)
        ELSE RequestChecked(s0, search_name, resp.data,
                            [i \in 1..Len(resp.data) |->
                                nominatim_result_check(resp.data[i], expected_zip,
                                                       expected_town,
                                                       RequestExpectedState(s.tags))])

-----------------------------------------------------------------------------
(* NominatimSearch._reverse_for_state: the exploratory state query         *)

\* Variant for comparison: the state of the first candidate is adopted
\* whatever the other candidates say
ReverseAdoptsFirst(tags, resp) ==
    IF \/ tags.StateName # <<>> \/ tags.ZipCode # <<>> \/ tags.AddressNumber = <<>>
       \/ _build_street_value(tags) = <<>> \/ tags.PlaceName = <<>>
    THEN [tags |-> tags, searched |-> FALSE]
    ELSE IF resp.kind = "ok" /\ resp.data # <<>>
    THEN [tags |-> [tags EXCEPT !.StateName = Strip(resp.data[1].address.state)],
          searched |-> TRUE]
    ELSE [tags |-> tags, searched |-> TRUE]

\* tags is address_tags_expanded as built by _parse_address before the
\* exploratory query; resp is what the query returns when it is issued.
\* Result: the tags afterwards and whether the query was issued.
_reverse_for_state(tags, resp) ==
    LET street_value == _build_street_value(tags)
        skipped == \/ Strip(tags.StateName) # <<>>
                   \/ Strip(tags.ZipCode) # <<>>
                   \/ Strip(tags.AddressNumber) = <<>>
                   \/ street_value = <<>>
                   \/ Strip(tags.PlaceName) = <<>>
        data == IF resp.kind = "ok" THEN resp.data ELSE <<>>
        state_results == SelectSeq([i \in 1..Len(data) |-> Strip(data[i].address.state)],
                                   LAMBDA name : name # <<>>)
        normalized_states == {Strip(Casefold(state_results[i])) : i \in 1..Len(state_results)}
    IN  IF skipped THEN [tags |-> tags, searched |-> FALSE]
        ELSE IF Cardinality(normalized_states) = 1
        THEN [tags |-> [tags EXCEPT !.StateName = state_results[1]], searched |-> TRUE]
        ELSE [tags |-> tags, searched |-> TRUE]

-----------------------------------------------------------------------------
(* nominatim_helpers/zip_reapir.py: repair_zip_ri_ma                        *)
(*                                                                         *)
(* The regular expressions are modelled by what they match: a match is     *)
(* given by the positions of its groups, re.search takes the leftmost one. *)

WordAt(s, i) == i >= 1 /\ i <= Len(s) /\ IsWordChar(s[i])
\* \b between the characters at p and p + 1
Boundary(s, p) == WordAt(s, p) # WordAt(s, p + 1)
\* \d{n} at a
DigitsAt(s, a, n) == a >= 1 /\ a + n - 1 <= Len(s) /\ \A k \in a..(a + n - 1) : IsDigit(s[k])
StartsAt(s, a, part) ==
    a >= 1 /\ a + Len(part) - 1 <= Len(s) /\ SubSeq(s, a, a + Len(part) - 1) = part
EndsWith(s, suffix) == StartsAt(s, Len(s) - Len(suffix) + 1, suffix)
DropLast(s, n) == SubSeq(s, 1, Len(s) - n)
\* the first word character after position e, 0 when there is none
FirstWordAfter(s, e) ==
    IF \E k \in (e + 1)..Len(s) : IsWordChar(s[k])
    THEN Min({k \in (e + 1)..Len(s) : IsWordChar(s[k])})
    ELSE 0
\* the first character after position e that is not whitespace, Len(s) + 1 when there is none
FirstNonSpaceAfter(s, e) ==
    IF \E k \in (e + 1)..Len(s) : ~IsSpace(s[k])
    THEN Min({k \in (e + 1)..Len(s) : ~IsSpace(s[k])})
    ELSE Len(s) + 1

\* _UNIT_WORDS_PATTERN, _COUNTRY_PATTERN (whitespace runs as one blank)
UNIT_WORDS ==
    {<<"a","p","t">>, <<"a","p","a","r","t","m","e","n","t">>, <<"u","n","i","t">>, <<"s","t","e">>, <<"s","u","i","t","e">>, <<"#">>, <<"f","l">>, <<"f","l","o","o","r">>, <<"b","l","d","g">>, <<"b","u","i","l","d","i","n","g">>}
COUNTRY_NAMES == {<<"u","s","a">>, <<"u","s">>, <<"u","n","i","t","e","d"," ","s","t","a","t","e","s">>, <<"u","n","i","t","e","d"," ","s","t","a","t","e","s"," ","o","f"," ","a","m","e","r","i","c","a">>}

\* \b(_RI_MA_STATE_PATTERN)\b at p, case ignored: the position of the last
\* character of the state token, 0 when none of the alternatives matches
RhodeIslandEnd(s, p) ==
    IF /\ StartsAt(Casefold(s), p, <<"r","h","o","d","e">>)
       /\ p + 5 <= Len(s) /\ IsSpace(s[p + 5])
       /\ StartsAt(Casefold(s), FirstNonSpaceAfter(s, p + 5), <<"i","s","l","a","n","d">>)
    THEN FirstNonSpaceAfter(s, p + 5) + 5
    ELSE 0

StateTokenEnd(s, p) ==
    IF ~Boundary(s, p - 1) THEN 0
    ELSE IF StartsAt(Casefold(s), p, <<"r","i">>) /\ Boundary(s, p + 1) THEN p + 1
    ELSE IF StartsAt(Casefold(s), p, <<"m","a">>) /\ Boundary(s, p + 1) THEN p + 1
    ELSE IF RhodeIslandEnd(s, p) # 0 /\ Boundary(s, RhodeIslandEnd(s, p))
    THEN RhodeIslandEnd(s, p)
    ELSE IF StartsAt(Casefold(s), p, <<"m","a","s","s","a","c","h","u","s","e","t","t","s">>) /\ Boundary(s, p + 12) THEN p + 12
    ELSE 0

\* \b(\d{n})\b at a
NumberTokenAt(s, a, n) == Boundary(s, a - 1) /\ DigitsAt(s, a, n) /\ Boundary(s, a + n - 1)

\* 1) \b(\d{5})(?:-\d{4})?\b: the span <<first, last>> of the leftmost match, <<>> when none
Zip5Ends(s, a) ==
    IF ~(Boundary(s, a - 1) /\ DigitsAt(s, a, 5)) THEN 0
    ELSE IF a + 5 <= Len(s) /\ s[a + 5] = "-" /\ DigitsAt(s, a + 6, 4) /\ Boundary(s, a + 9)
    THEN a + 9
    ELSE IF Boundary(s, a + 4) THEN a + 4
    ELSE 0

Zip5Match(s) ==
    IF \E a \in 1..Len(s) : Zip5Ends(s, a) # 0
    THEN <<Min({a \in 1..Len(s) : Zip5Ends(s, a) # 0}),
           Zip5Ends(s, Min({a \in 1..Len(s) : Zip5Ends(s, a) # 0}))>>
    ELSE <<>>

\* (?:\s*_COUNTRY_PATTERN)?\s*$ on what follows the digits
TrailingCountry(rest) ==
    \/ rest = <<>>
    \/ /\ ~IsSpace(rest[Len(rest)])
       /\ \/ CollapseWs(Casefold(rest)) \in COUNTRY_NAMES
          \/ /\ rest[Len(rest)] = "."
             /\ Len(rest) > 1 /\ ~IsSpace(rest[Len(rest) - 1])
             /\ CollapseWs(Casefold(DropLast(rest, 1))) \in COUNTRY_NAMES

\* 2) \b(\d{4})\b(?:\s*country)?\s*$: where the digits of the leftmost match start, 0 when none
TrailingMatches(s) ==
    {a \in 1..Len(s) : NumberTokenAt(s, a, 4) /\ TrailingCountry(SubSeq(s, a + 4, Len(s)))}
TrailingMatch(s) == IF TrailingMatches(s) = {} THEN 0 ELSE Min(TrailingMatches(s))

\* 3) \b(state)\b\W*(\d{4})\b: where the digits of the leftmost match start, 0 when none
AfterStateMatches(s) ==
    {p \in 1..Len(s) :
        /\ StateTokenEnd(s, p) # 0
        /\ FirstWordAfter(s, StateTokenEnd(s, p)) # 0
        /\ DigitsAt(s, FirstWordAfter(s, StateTokenEnd(s, p)), 4)
        /\ Boundary(s, FirstWordAfter(s, StateTokenEnd(s, p)) + 3)}
AfterStateMatch(s) ==
    IF AfterStateMatches(s) = {} THEN 0
    ELSE FirstWordAfter(s, StateTokenEnd(s, Min(AfterStateMatches(s))))

\* 4) \b(\d{4})\b\W*\b(state)\b: where the digits of the leftmost match start, 0 when none
BeforeStateMatches(s) ==
    {a \in 1..Len(s) :
        /\ NumberTokenAt(s, a, 4)
        /\ FirstWordAfter(s, a + 3) # 0
        /\ StateTokenEnd(s, FirstWordAfter(s, a + 3)) # 0}
BeforeStateMatch(s) == IF BeforeStateMatches(s) = {} THEN 0 ELSE Min(BeforeStateMatches(s))

\* _looks_like_unit_number_context: a unit word, with or without a full
\* stop, ends the text (nothing requires the word to begin at a word boundary)
_looks_like_unit_number_context(text_before_number) ==
    \E w \in UNIT_WORDS :
        \/ EndsWith(Casefold(text_before_number), w)
        \/ EndsWith(Casefold(text_before_number), w \o <<".">>)

\* p\.?\s*o\.?\s*box read from the end of the text
BeforeBox(t) == StripRight(DropLast(t, 3), {" ", "\t", "\n"})
BeforeDot(t) == IF EndsWith(t, <<".">>) THEN DropLast(t, 1) ELSE t
BeforeO(t) == StripRight(DropLast(BeforeDot(t), 1), {" ", "\t", "\n"})

\* _looks_like_po_box_context
_looks_like_po_box_context(text_before_number) ==
    /\ EndsWith(Casefold(text_before_number), <<"b","o","x">>)
    /\ EndsWith(BeforeDot(BeforeBox(Casefold(text_before_number))), <<"o">>)
    /\ EndsWith(BeforeDot(BeforeO(BeforeBox(Casefold(text_before_number)))), <<"p">>)

\* the text before the digits at a, right-stripped, is a unit or PO-box context
MarkerBefore(s, a) ==
    \/ _looks_like_unit_number_context(StripRight(SubSeq(s, 1, a - 1), {" ", "\t", "\n"}))
    \/ _looks_like_po_box_context(StripRight(SubSeq(s, 1, a - 1), {" ", "\t", "\n"}))

\* re.sub(r"\s{2,}", " ", text)
RECURSIVE SqueezeSpaces(_)
SqueezeSpaces(s) ==
    IF s = <<>> THEN <<>>
    ELSE IF IsSpace(s[1]) /\ Len(s) > 1 /\ IsSpace(s[2])
    THEN <<" ">> \o SqueezeSpaces(SubSeq(s, FirstNonSpaceAfter(s, 0), Len(s)))
    ELSE <<s[1]>> \o SqueezeSpaces(Tail(s))

\* re.sub(r"\s+,", ",", text)
RECURSIVE SpaceBeforeComma(_)
SpaceBeforeComma(s) ==
    IF s = <<>> THEN <<>>
    ELSE IF IsSpace(s[1]) /\ FirstNonSpaceAfter(s, 0) <= Len(s) /\ s[FirstNonSpaceAfter(s, 0)] = ","
    THEN <<",">> \o SpaceBeforeComma(SubSeq(s, FirstNonSpaceAfter(s, 0) + 1, Len(s)))
    ELSE IF IsSpace(s[1])
    THEN SubSeq(s, 1, FirstNonSpaceAfter(s, 0) - 1)
             \o SpaceBeforeComma(SubSeq(s, FirstNonSpaceAfter(s, 0), Len(s)))
    ELSE <<s[1]>> \o SpaceBeforeComma(Tail(s))

\* re.sub(r"\s*,\s*", ", ", text)
RECURSIVE SpaceAfterComma(_)
SpaceAfterComma(s) ==
    IF s = <<>> THEN <<>>
    ELSE IF FirstNonSpaceAfter(s, 0) <= Len(s) /\ s[FirstNonSpaceAfter(s, 0)] = ","
    THEN <<",", " ">>
             \o SpaceAfterComma(SubSeq(s, FirstNonSpaceAfter(s, FirstNonSpaceAfter(s, 0)), Len(s)))
    ELSE IF IsSpace(s[1])
    THEN SubSeq(s, 1, FirstNonSpaceAfter(s, 0) - 1)
             \o SpaceAfterComma(SubSeq(s, FirstNonSpaceAfter(s, 0), Len(s)))
    ELSE <<s[1]>> \o SpaceAfterComma(Tail(s))

\* _replace_span_and_cleanup: text[a:b] replaced (span <<first, last>>, from 1), then tidied
_replace_span_and_cleanup(text, first, last, replacement) ==
    Strip(SpaceAfterComma(SpaceBeforeComma(StripChars(SqueezeSpaces(Strip(
        SubSeq(text, 1, first - 1) \o replacement \o SubSeq(text, last + 1, Len(text)))),
        {" ", ",", ";"}))))

ZipRepairResult(cleaned_address, zip5, zip_source) ==
    [cleaned_address |-> cleaned_address, zip5 |-> zip5, zip_source |-> zip_source]

\* the repair of a 4-digit token at a whose match ends at last
Zip4Repaired(s, a, last, zip_source) ==
    ZipRepairResult(_replace_span_and_cleanup(s, a, last, <<"0">> \o SubSeq(s, a, a + 3)),
                    <<"0">> \o SubSeq(s, a, a + 3), zip_source)

\* heuristics 3 and 4, tried when 1 and 2 found nothing
RepairByState(s) ==
    IF AfterStateMatch(s) # 0 /\ ~MarkerBefore(s, AfterStateMatch(s))
    THEN Zip4Repaired(s, AfterStateMatch(s), AfterStateMatch(s) + 3, "zip4_after_state")
    ELSE IF BeforeStateMatch(s) # 0 /\ ~MarkerBefore(s, BeforeStateMatch(s))
    THEN Zip4Repaired(s, BeforeStateMatch(s), BeforeStateMatch(s) + 3, "zip4_before_state")
    ELSE ZipRepairResult(s, <<>>, "")

\* Variant for comparison: the trailing 4-digit token is tried before the 5-digit one
RepairStrippedTrailingFirst(s) ==
    IF s = <<>> THEN ZipRepairResult(s, <<>>, "")
    ELSE IF TrailingMatch(s) # 0 /\ ~MarkerBefore(s, TrailingMatch(s))
    THEN Zip4Repaired(s, TrailingMatch(s), Len(s), "zip4_trailing")
    ELSE IF Zip5Match(s) # <<>>
    THEN ZipRepairResult(_replace_span_and_cleanup(s, Zip5Match(s)[1], Zip5Match(s)[2],
                                                   SubSeq(s, Zip5Match(s)[1], Zip5Match(s)[1] + 4)),
                         SubSeq(s, Zip5Match(s)[1], Zip5Match(s)[1] + 4), "zip5")
    ELSE RepairByState(s)

\* repair_zip_ri_ma on the stripped text
RepairStripped(s) ==
    IF s = <<>> THEN ZipRepairResult(s, <<>>, "")
    ELSE IF Zip5Match(s) # <<>>
    THEN ZipRepairResult(_replace_span_and_cleanup(s, Zip5Match(s)[1], Zip5Match(s)[2],
                                                   SubSeq(s, Zip5Match(s)[1], Zip5Match(s)[1] + 4)),
                         SubSeq(s, Zip5Match(s)[1], Zip5Match(s)[1] + 4), "zip5")
    ELSE IF TrailingMatch(s) # 0 /\ ~MarkerBefore(s, TrailingMatch(s))
    THEN Zip4Repaired(s, TrailingMatch(s), Len(s), "zip4_trailing")
    ELSE RepairByState(s)

\* repair_zip_ri_ma: cleaned_address, zip5 (<<>> for None) and zip_source ("" for None)
repair_zip_ri_ma(address) == RepairStripped(Strip(address))

-----------------------------------------------------------------------------
(* NominatimSearch._parse_address: the tagging stage                       *)
(*                                                                         *)
(* The structured parser (usaddress.tag) and the postal-code table         *)
(* (uszipcode) are libraries outside the repository.  A parse outcome is   *)
(* [ok, tags]: ok with the tags returned, or a failure (RepeatedLabelError) *)
(* with the partial labels of exc.parsed_string.                           *)

T_02101 == <<"0","2","1","0","1">>
T_99999 == <<"9","9","9","9","9">>
T_Unit == <<"U","n","i","t">>

\* SearchEngine().by_zipcode(zip).state_abbr: the postal-code table for the
\* zips of the service area; <<>> (None) for a zip the table does not hold
by_zipcode(zip) ==
    IF zip \in {T_02835, T_02840} THEN T_RI
    ELSE IF zip = T_02101 THEN T_MA
    ELSE <<>>

\* Variant for comparison: a replacement that leaves the text as it is
ReplaceNothing(s, old, new) == s

\* str.replace(old, new): every occurrence of old, left to right, none overlapping
RECURSIVE Replace(_, _, _)
Replace(s, old, new) ==
    IF old = <<>> \/ Len(s) < Len(old) THEN s
    ELSE IF SubSeq(s, 1, Len(old)) = old
    THEN new \o Replace(SubSeq(s, Len(old) + 1, Len(s)), old, new)
    ELSE <<s[1]>> \o Replace(Tail(s), old, new)

\* str.isdigit()
IsDigitText(s) == s # <<>> /\ \A k \in 1..Len(s) : IsDigit(s[k])
\* "".join(c for c in s if c.isdigit()) and its complement
DigitsOf(s) == SelectSeq(s, IsDigit)
NonDigitsOf(s) == SelectSeq(s, LAMBDA c : ~IsDigit(c))

\* Variant for comparison: a cleanup that leaves the tags as they were parsed
AddressNumberKept(tags) == tags

\* The AddressNumber cleanup of _parse_address: the digits stay, the other
\* characters go to the occupancy slot when the tags have no OccupancyType,
\* else to the sub-address slot when they have no SubaddressType.
AddressNumberCleanup(tags) ==
    IF tags.AddressNumber = <<>> \/ IsDigitText(tags.AddressNumber) THEN tags
    ELSE IF tags.OccupancyType = <<>>
    THEN [tags EXCEPT !.AddressNumber = DigitsOf(tags.AddressNumber),
                      !.OccupancyType = T_Unit,
                      !.OccupancyIdentifier = NonDigitsOf(tags.AddressNumber)]
    ELSE IF tags.SubaddressType = <<>>
    THEN [tags EXCEPT !.AddressNumber = DigitsOf(tags.AddressNumber),
                      !.SubaddressType = T_Unit,
                      !.SubaddressIdentifier = NonDigitsOf(tags.AddressNumber)]
    ELSE [tags EXCEPT !.AddressNumber = DigitsOf(tags.AddressNumber)]

\* the entries of the abbreviation table for the values the tags take here
abbreviations(value) ==
    CASE Casefold(value) = <<"s","t">> -> T_Street
      [] Casefold(value) = <<"s","t",".">> -> T_Street
      [] Casefold(value) = <<"a","v","e">> -> <<"A","v","e","n","u","e">>
      [] Casefold(value) = <<"a","p","t">> -> <<"A","p","a","r","t","m","e","n","t">>
      [] Casefold(value) = <<"s","t","e">> -> <<"S","u","i","t","e">>
      [] OTHER -> value

\* expand_address_abbreviations over the type components carried in the tags
expand_address_abbreviations(address_tags) ==
    [address_tags EXCEPT
        !.StreetNamePostType = IF @ = <<>> THEN @ ELSE abbreviations(@),
        !.OccupancyType = IF @ = <<>> THEN @ ELSE abbreviations(@)]

ParseOk(tags) == [ok |-> TRUE, tags |-> tags]
ParseFail(partial) == [ok |-> FALSE, tags |-> partial]

\* what _parse_address leaves behind: address_tags_expanded (tags), the texts
\* handed to the parser and its answers, whether the stage returned early
\* without tags, the tags before the exploratory state query and that
\* query's answer when it was issued, and fix_address_number_non_numeric
Tagged(tags, tag_calls, tag_results, tag_failed, expanded, reverse_response, flagged) ==
    [tags |-> tags, tag_calls |-> tag_calls, tag_results |-> tag_results,
     tag_failed |-> tag_failed, expanded |-> expanded,
     reverse_response |-> reverse_response, flagged |-> flagged]

\* Variant for comparison: a failed tagging stage that hands on complete tags
TaggingFailedWithTags(tag_calls, tag_results) ==
    Tagged([NoTags EXCEPT !.AddressNumber = T_2, !.StreetName = T_Main,
                          !.PlaceName = T_Jamestown, !.StateName = T_RI,
                          !.ZipCode = T_02835],
           tag_calls, tag_results, TRUE, NoTags, <<>>, FALSE)

\* "return None" before address_tags_expanded is built: the cascade finds no tags
TaggingFailed(tag_calls, tag_results) ==
    Tagged(NoTags, tag_calls, tag_results, TRUE, NoTags, <<>>, FALSE)

\* expansion, then _reverse_for_state with what the search service answers
TaggingExpanded(expanded, tag_calls, tag_results, flagged, resp) ==
    Tagged(_reverse_for_state(expanded, resp).tags, tag_calls, tag_results, FALSE, expanded,
           IF _reverse_for_state(expanded, resp).searched THEN <<resp>> ELSE <<>>, flagged)

\* the AddressNumber cleanup and the expansion
TaggingCleaned(address_tags_raw, tag_calls, tag_results, resp) ==
    TaggingExpanded(expand_address_abbreviations(AddressNumberCleanup(address_tags_raw)),
                    tag_calls, tag_results,
                    address_tags_raw.AddressNumber # <<>>
                        /\ ~IsDigitText(address_tags_raw.AddressNumber),
                    resp)

\* after a parse that succeeded: a ZipCode without StateName gets the state of
\* the postal-code table, and the stage returns early when the table has none
TaggingParsed(address_tags_raw, tag_calls, tag_results, resp) ==
    IF address_tags_raw.ZipCode # <<>> /\ address_tags_raw.StateName = <<>>
    THEN IF by_zipcode(address_tags_raw.ZipCode) = <<>>
         THEN TaggingFailed(tag_calls, tag_results)
         ELSE TaggingCleaned([address_tags_raw EXCEPT
                                  !.StateName = by_zipcode(address_tags_raw.ZipCode)],
                             tag_calls, tag_results, resp)
    ELSE TaggingCleaned(address_tags_raw, tag_calls, tag_results, resp)

\* the second parse, on the text with the state put before the zip
TaggingRetry(tag_calls, first, second, resp) ==
    IF second.ok
    THEN TaggingParsed(second.tags, tag_calls, <<first, second>>, resp)
    ELSE TaggingFailed(tag_calls, <<first, second>>)

\* address_zip_repaired is the text the normalisation steps hand to the
\* parser, first and second what the parser answers to the first and to the
\* repaired text, resp what the search service answers to the exploratory query
_parse_address(address_zip_repaired, first, second, resp) ==
    IF first.ok THEN TaggingParsed(first.tags, <<address_zip_repaired>>, <<first>>, resp)
    ELSE IF first.tags.ZipCode = <<>> \/ first.tags.StateName # <<>>
    THEN TaggingFailed(<<address_zip_repaired>>, <<first>>)
    ELSE IF by_zipcode(first.tags.ZipCode) = <<>>
    THEN TaggingFailed(<<address_zip_repaired>>, <<first>>)
    ELSE TaggingRetry(<<address_zip_repaired,
                        Replace(address_zip_repaired, first.tags.ZipCode,
                                by_zipcode(first.tags.ZipCode) \o <<" ">>
                                    \o first.tags.ZipCode)>>,
                      first, second, resp)

\* Variant for comparison: the best candidate whatever its score
FuzzyMatchBest(target_road, candidates) ==
    IF target_road = <<>> \/ candidates = <<>> THEN <<>>
    ELSE <<candidates[CHOOSE i \in 1..Len(candidates) :
                          \A j \in 1..Len(candidates) :
                              candidates[j].score <= candidates[i].score].name>>

\* Variant for comparison: the first candidate that clears the threshold
FuzzyMatchFirstAbove(target_road, candidates) ==
    IF target_road = <<>> \/ candidates = <<>> THEN <<>>
    ELSE IF \A i \in 1..Len(candidates) : candidates[i].score < fuzzy_threshold THEN <<>>
    ELSE <<candidates[Min({i \in 1..Len(candidates) :
                              candidates[i].score >= fuzzy_threshold})].name>>

\* NominatimSearch._fuzzy_match_road: candidates carry the smart_score of the
\* target against each road name; extractOne keeps the first of the best
\* scores.  Result: <<name>>, or <<>> for None.
_fuzzy_match_road(target_road, candidates) ==
    IF target_road = <<>> \/ candidates = <<>> THEN <<>>
    ELSE LET best == CHOOSE i \in 1..Len(candidates) :
                        /\ \A j \in 1..Len(candidates) : candidates[j].score <= candidates[i].score
                        /\ \A j \in 1..(i - 1) : candidates[j].score < candidates[i].score
         IN  IF candidates[best].score < fuzzy_threshold THEN <<>>
             ELSE <<candidates[best].name>>

\* NominatimSearch._parse_house_number_int: int() of the first run of digits
\* (re.search(r"\d+")), NoneInt when there is none
_parse_house_number_int(value) ==
    LET starts == {i \in 1..Len(value) : IsDigit(value[i])}
        first == Min(starts)
        stops == {i \in first..Len(value) : i = Len(value) \/ ~IsDigit(value[i + 1])}
        digits == SubSeq(value, first, Min(stops))
        val(c) == CHOOSE d \in 0..9 : <<"0","1","2","3","4","5","6","7","8","9">>[d + 1] = c
        num[k \in 0..Len(digits)] == IF k = 0 THEN 0 ELSE num[k - 1] * 10 + val(digits[k])
    IN  IF starts = {} THEN NoneInt ELSE num[Len(digits)]

Abs(x) == IF x < 0 THEN 0 - x ELSE x

\* the decimal digits of n >= 0
RECURSIVE NatToText(_)
NatToText(n) ==
    IF n < 10 THEN <<(<<"0","1","2","3","4","5","6","7","8","9">>)[n + 1]>>
    ELSE NatToText(n \div 10) \o <<(<<"0","1","2","3","4","5","6","7","8","9">>)[(n % 10) + 1]>>

\* f"{x:.7f}": coordinates are whole numbers of 1e-7 degree, written as their digits
CoordText(n) == IF n < 0 THEN <<"-">> \o NatToText(0 - n) ELSE NatToText(n)

\* _lerp(start, end, num / den), rounded to the nearest 1e-7 degree
_lerp(start, end, num, den) ==
    start + ((2 * (end - start) * num + den) \div (2 * den))

\* a key <<x, y>> before another, x first
KeyLess(a, b) == a[1] < b[1] \/ (a[1] = b[1] /\ a[2] < b[2])

\* min(list, key=...): the first position whose key is least
FirstMin(keys) ==
    CHOOSE p \in 1..Len(keys) :
        /\ \A q \in 1..Len(keys) : ~KeyLess(keys[q], keys[p])
        /\ \A q \in 1..(p - 1) : KeyLess(keys[p], keys[q])

\* Variant for comparison: the parity test on the low number of the range
TigerRangeLowParity(row, house_num) ==
    LET fwd == row.startnumber <= row.endnumber
    IN  [usable |-> row.startnumber # NoneInt /\ row.endnumber # NoneInt /\ row.geom,
         low |-> IF fwd THEN row.startnumber ELSE row.endnumber,
         high |-> IF fwd THEN row.endnumber ELSE row.startnumber,
         low_lat |-> IF fwd THEN row.start_lat ELSE row.end_lat,
         low_lon |-> IF fwd THEN row.start_lon ELSE row.end_lon,
         high_lat |-> IF fwd THEN row.end_lat ELSE row.start_lat,
         high_lon |-> IF fwd THEN row.end_lon ELSE row.start_lon,
         parity_ok |-> IF row.step = 2
                       THEN (house_num % 2) = ((IF fwd THEN row.startnumber ELSE row.endnumber) % 2)
                       ELSE TRUE,
         range_span |-> Abs(row.endnumber - row.startnumber),
         mid_dist |-> Abs(2 * house_num - (row.startnumber + row.endnumber))]

\* One row of the road store as the selection reads it (startnumber,
\* endnumber, step: NoneInt when unparsable; geom: all four endpoint
\* coordinates present): low/high are the range ordered, with the endpoint
\* coordinates that belong to them; mid_dist is twice abs(house_num - midpoint).
TigerRange(row, house_num) ==
    LET fwd == row.startnumber <= row.endnumber
    IN  [usable |-> row.startnumber # NoneInt /\ row.endnumber # NoneInt /\ row.geom,
         low |-> IF fwd THEN row.startnumber ELSE row.endnumber,
         high |-> IF fwd THEN row.endnumber ELSE row.startnumber,
         low_lat |-> IF fwd THEN row.start_lat ELSE row.end_lat,
         low_lon |-> IF fwd THEN row.start_lon ELSE row.end_lon,
         high_lat |-> IF fwd THEN row.end_lat ELSE row.start_lat,
         high_lon |-> IF fwd THEN row.end_lon ELSE row.start_lon,
         parity_ok |-> IF row.step = 2 THEN (house_num % 2) = (row.startnumber % 2)
                       ELSE TRUE,
         range_span |-> Abs(row.endnumber - row.startnumber),
         mid_dist |-> Abs(2 * house_num - (row.startnumber + row.endnumber))]

\* valid_rows: the indices of the usable rows, in the order returned
ValidRows(R) == SelectSeq([i \in 1..Len(R) |-> i], LAMBDA i : R[i].usable)

\* rows whose range holds the house number, parity respected
InsideRows(house_num, R, valid) ==
    SelectSeq(valid, LAMBDA i :
        R[i].parity_ok /\ R[i].low <= house_num /\ house_num <= R[i].high)

\* Variant for comparison: the first row that holds the house number
BestInsideFirst(R, inside_rows) == inside_rows[1]

\* min(inside_rows, key=(range_span, abs(house_num - midpoint)))
BestInside(R, inside_rows) ==
    inside_rows[FirstMin([k \in 1..Len(inside_rows) |->
                             <<R[inside_rows[k]].range_span, R[inside_rows[k]].mid_dist>>])]

\* the place of valid[p] in sorted(valid_rows, key=(low_num, high_num)), stable
SortedPos(R, valid, p) ==
    Cardinality({q \in 1..Len(valid) :
        \/ R[valid[q]].low < R[valid[p]].low
        \/ R[valid[q]].low = R[valid[p]].low /\ R[valid[q]].high < R[valid[p]].high
        \/ /\ R[valid[q]].low = R[valid[p]].low
           /\ R[valid[q]].high = R[valid[p]].high
           /\ q < p}) + 1

SortedRows(R, valid) ==
    [k \in 1..Len(valid) |-> valid[CHOOSE p \in 1..Len(valid) : SortedPos(R, valid, p) = k]]

\* neighbours in the sorted order with the house number strictly between them
Brackets(house_num, R, sorted_rows) ==
    SelectSeq([k \in 1..(Len(sorted_rows) - 1) |-> k], LAMBDA k :
        /\ R[sorted_rows[k]].parity_ok
        /\ R[sorted_rows[k + 1]].parity_ok
        /\ R[sorted_rows[k]].high < house_num
        /\ house_num < R[sorted_rows[k + 1]].low)

\* min(brackets, key=gap)
BestBracket(R, sorted_rows, brackets) ==
    brackets[FirstMin([k \in 1..Len(brackets) |->
                          <<R[sorted_rows[brackets[k] + 1]].low
                                - R[sorted_rows[brackets[k]]].high, 0>>])]

\* the endpoints <<row, number, lat, lon>>, the low one of each row first;
\* those of parity-respecting rows when there are any
Endpoints(R, valid) ==
    [k \in 1..(2 * Len(valid)) |->
        IF k % 2 = 1
        THEN [row |-> valid[(k + 1) \div 2], num |-> R[valid[(k + 1) \div 2]].low,
              lat |-> R[valid[(k + 1) \div 2]].low_lat,
              lon |-> R[valid[(k + 1) \div 2]].low_lon]
        ELSE [row |-> valid[(k + 1) \div 2], num |-> R[valid[(k + 1) \div 2]].high,
              lat |-> R[valid[(k + 1) \div 2]].high_lat,
              lon |-> R[valid[(k + 1) \div 2]].high_lon]]

ParityEndpoints(R, endpoints) == SelectSeq(endpoints, LAMBDA ep : R[ep.row].parity_ok)

\* min(endpoints, key=abs(house_num - number))
NearestEndpoint(house_num, chosen) ==
    chosen[FirstMin([k \in 1..Len(chosen) |-> <<Abs(house_num - chosen[k].num), 0>>])]

Interpolated(house_num, R, best) ==
    <<[lat |-> _lerp(R[best].low_lat, R[best].high_lat,
                     IF R[best].range_span > 0 THEN house_num - R[best].low ELSE 1,
                     IF R[best].range_span > 0 THEN R[best].range_span ELSE 2),
       lon |-> _lerp(R[best].low_lon, R[best].high_lon,
                     IF R[best].range_span > 0 THEN house_num - R[best].low ELSE 1,
                     IF R[best].range_span > 0 THEN R[best].range_span ELSE 2),
       mode |-> "extrapolated",
       logic |-> "within_range_interpolation",
       indices |-> <<best - 1>>]>>

Extrapolated(house_num, R, left, right) ==
    <<[lat |-> _lerp(R[left].high_lat, R[right].low_lat,
                     house_num - R[left].high, R[right].low - R[left].high),
       lon |-> _lerp(R[left].high_lon, R[right].low_lon,
                     house_num - R[left].high, R[right].low - R[left].high),
       mode |-> "extrapolated",
       logic |-> "between_ranges_extrapolation",
       indices |-> <<left - 1, right - 1>>]>>

Snapped(nearest) ==
    <<[lat |-> nearest.lat,
       lon |-> nearest.lon,
       mode |-> "snapped",
       logic |-> "nearest_endpoint_snap",
       indices |-> <<nearest.row - 1>>]>>

\* Variant for comparison: the nearest endpoint of any usable row
SnapToNearestOfAll(house_num, R, endpoints, parity_endpoints) ==
    Snapped(NearestEndpoint(house_num, endpoints))

SnapToNearest(house_num, R, endpoints, parity_endpoints) ==
    Snapped(NearestEndpoint(house_num,
                            IF parity_endpoints # <<>> THEN parity_endpoints ELSE endpoints))

BetweenOrSnap(house_num, R, valid, sorted_rows, brackets) ==
    IF brackets # <<>>
    THEN Extrapolated(house_num, R, sorted_rows[BestBracket(R, sorted_rows, brackets)],
                      sorted_rows[BestBracket(R, sorted_rows, brackets) + 1])
    ELSE SnapToNearest(house_num, R, Endpoints(R, valid),
                       ParityEndpoints(R, Endpoints(R, valid)))

InsideOrBeyond(house_num, R, valid, inside_rows, sorted_rows) ==
    IF valid = <<>> THEN <<>>
    ELSE IF inside_rows # <<>> THEN Interpolated(house_num, R, BestInside(R, inside_rows))
    ELSE BetweenOrSnap(house_num, R, valid, sorted_rows,
                       Brackets(house_num, R, sorted_rows))

TigerChoose(house_num, R, valid) ==
    InsideOrBeyond(house_num, R, valid, InsideRows(house_num, R, valid),
                   SortedRows(R, valid))

\* The selection of _search_tiger_extrapolate_snap over the rows the road
\* store returned.
\* Result: <<>> when no row is usable, else <<[lat, lon, mode, logic, indices]>>.
TigerSelect(house_num, tiger_rows) ==
    TigerChoose(house_num,
                [i \in 1..Len(tiger_rows) |-> TigerRange(tiger_rows[i], house_num)],
                ValidRows([i \in 1..Len(tiger_rows) |-> TigerRange(tiger_rows[i], house_num)]))

TigerFailed(s, result_status, error, number_results, result_check, reason, results) ==
    [s |-> [s EXCEPT !.error = error],
     ok |-> FALSE,
     error |-> error,
     detail |-> SearchDetail("tiger_extrapolate_snap", TRUE, result_status, error,
                             number_results, result_check, reason, NoneInt, results)]

\* search_detail["results"]: one entry per returned row
TigerResults(tiger_rows, selected) ==
    [i \in 1..Len(tiger_rows) |->
        [result_index |-> i - 1,
         accepted |-> (i - 1) \in selected,
         rejection_reason |->
             IF ~(/\ tiger_rows[i].startnumber # NoneInt
                  /\ tiger_rows[i].endnumber # NoneInt
                  /\ tiger_rows[i].geom)
             THEN <<"invalid_tiger_row">>
             ELSE IF (i - 1) \in selected THEN <<>>
             ELSE <<"not_selected">>]]

\* Variant for comparison: an accepted fallback that leaves the error of the
\* re-query in place
TigerAcceptedKeepsError(s, zip_code, fuzzy_street_name, address_number, tiger_rows, sel, lat_text, lon_text, display) ==
    [s |-> [s EXCEPT
                !.latitude = lat_text,
                !.longitude = lon_text,
                !.nominatim_address = display,
                !.method = "tiger_extrapolate_snap",
                !.query = <<zip_code, fuzzy_street_name, address_number>>,
                !.response = tiger_rows,
                !.result_metadata =
                    <<[search_name |-> "tiger_extrapolate_snap",
                       search_number_results |-> Len(tiger_rows),
                       accepted_result_index |-> sel.indices[1],
                       lat |-> lat_text,
                       lon |-> lon_text,
                       display_name |-> display]>>],
     ok |-> TRUE,
     error |-> <<>>,
     detail |-> SearchDetail("tiger_extrapolate_snap", TRUE, "returned", <<>>,
                             Len(tiger_rows), "accepted", <<sel.mode>>, sel.indices[1],
                             TigerResults(tiger_rows, Range(sel.indices)))]

\* the return of _search_tiger_extrapolate_snap for a selected point
TigerAccepted(s, zip_code, fuzzy_street_name, address_number, tiger_rows, sel, lat_text, lon_text, display) ==
    [s |-> [s EXCEPT
                !.latitude = lat_text,
                !.longitude = lon_text,
                !.nominatim_address = display,
                !.method = "tiger_extrapolate_snap",
                !.query = <<zip_code, fuzzy_street_name, address_number>>,
                !.error = <<>>,
                !.response = tiger_rows,
                !.result_metadata =
                    <<[search_name |-> "tiger_extrapolate_snap",
                       search_number_results |-> Len(tiger_rows),
                       accepted_result_index |-> sel.indices[1],
                       lat |-> lat_text,
                       lon |-> lon_text,
                       display_name |-> display]>>],
     ok |-> TRUE,
     error |-> <<>>,
     detail |-> SearchDetail("tiger_extrapolate_snap", TRUE, "returned", <<>>,
                             Len(tiger_rows), "accepted", <<sel.mode>>, sel.indices[1],
                             TigerResults(tiger_rows, Range(sel.indices)))]

\* the display name: house number, the selected row's road name (the matched
\* street when the row has none), zip
TigerDisplay(house_num, road_name_text, fuzzy_street_name, zip_code) ==
    NatToText(house_num) \o <<", ">>
        \o (IF road_name_text # <<>> THEN road_name_text ELSE fuzzy_street_name)
        \o <<", ">> \o zip_code \o <<", TIGER extrapolate/snap">>

TigerSelected(s, zip_code, fuzzy_street_name, address_number, house_num, tiger_rows, sel) ==
    IF sel = <<>>
    THEN TigerFailed(s, "returned", <<"No usable TIGER rows">>, Len(tiger_rows), "rejected",
                     <<"no_usable_tiger_rows">>, TigerResults(tiger_rows, {}))
    ELSE TigerAccepted(s, zip_code, fuzzy_street_name, address_number, tiger_rows, sel[1],
                       CoordText(sel[1].lat), CoordText(sel[1].lon),
                       TigerDisplay(house_num,
                                    tiger_rows[sel[1].indices[1] + 1].road_name_text,
                                    fuzzy_street_name, zip_code))

TigerQueried(s, zip_code, fuzzy_street_name, address_number, house_num, tg) ==
    IF zip_code = <<>> \/ fuzzy_street_name = <<>> \/ house_num = NoneInt THEN
        TigerFailed(s, "skipped",
                    <<"missing_required_inputs:zip_or_street_or_address_number">>, 0,
                    "rejected",
                    <<"missing_required_inputs:zip_or_street_or_address_number">>, <<>>)
    ELSE IF tg.kind = "unavailable" THEN
        TigerFailed(s, "error", <<"db_unavailable">>, 0, "none", <<>>, <<>>)
    ELSE IF tg.kind = "error" THEN
        TigerFailed([s EXCEPT !.calls = Append(@, "tiger_extrapolate_snap")], "error",
                    <<"tiger_query_error">>, 0, "none", <<>>, <<>>)
    ELSE IF tg.rows = <<>> THEN
        TigerFailed([s EXCEPT !.calls = Append(@, "tiger_extrapolate_snap")], "none_found",
                    <<"No TIGER rows returned">>, 0, "rejected", <<"no_tiger_rows">>, <<>>)
    ELSE TigerSelected([s EXCEPT !.calls = Append(@, "tiger_extrapolate_snap")], zip_code,
                       fuzzy_street_name, address_number, house_num, tg.rows,
                       TigerSelect(house_num, tg.rows))

\* tg is what the road store answers: kind "unavailable" (no driver), "error"
\* (connect or statement failure) or "rows" with the segment rows.
\* Result: the instance afterwards, and the returned (ok, error, search_detail).
_search_tiger_extrapolate_snap(s, zip_code, fuzzy_street_name, address_number, tg) ==
    TigerQueried(s, zip_code, fuzzy_street_name, address_number,
                 _parse_house_number_int(address_number), tg)

-----------------------------------------------------------------------------
(* NominatimSearch.search and data_add_geocode.main, step by step          *)
(*                                                                         *)
(* D is the environment of a specification: what the tagger, the search    *)
(* service and the road store may answer, and how the resolver is          *)
(* configured (D.batch: run by data_add_geocode.main, which passes         *)
(* save_address_cache=False and writes the cache rows itself).             *)

\* data_add_geocode.NUM_THREADS
NUM_THREADS == 4

Resolutions == 1..Len(rows)

Running == {i \in Resolutions : st[i].pc \notin {"queued", "done", "consumed"}}

Returned == {i \in Resolutions : st[i].pc \in {"done", "consumed"}}

\* Variant for comparison: no address counts as empty
BlankAddressNever(raw) == FALSE

\* "if not raw_addr" / "if not self.raw_address", on the stripped text
BlankAddress(raw) == raw = <<>>

\* The head of process_row and of search(): strip, the empty check (in a
\* batch run process_row returns the Empty address error itself), the
\* bad-address rewrite and the cache lookup under the cache lock.
Begin(i, D) ==
    /\ st[i].pc = "queued"
    /\ \A j \in 1..(i - 1) : st[j].pc # "queued"
    /\ Cardinality(Running) < NUM_THREADS
    /\ \E raw \in {Strip(rows[i])} :
       \E update \in {_lookup_bad_address(raw)} :
       \E cached_result \in {_lookup_address_cache(cache, IF update # <<>> THEN update ELSE raw)} :
       LET s0 == [reset EXCEPT !.input = rows[i], !.done_before = Returned]
           s1 == IF update # <<>>
                 THEN [s0 EXCEPT !.raw_address = update, !.bad_address_lookup_used = TRUE]
                 ELSE [s0 EXCEPT !.raw_address = raw]
       IN  st' = [st EXCEPT ![i] =
               IF BlankAddress(raw) THEN
                   [s0 EXCEPT !.error = <<"Empty address">>,
                              !.pc = IF D.batch THEN "done" ELSE "finish"]
               ELSE IF cached_result # <<>> THEN
                   [_apply_cached_result(s1, cached_result[1]) EXCEPT !.pc = "finish"]
               ELSE [s1 EXCEPT !.pc = "parse"]]
    /\ UNCHANGED <<vin, vout, cache, cacheFile, rows>>

\* _parse_address and the tag summary of search(): the normalisation steps
\* yield the text for the parser, the parser and the search service answer
ParseAddress(i, D) ==
    /\ st[i].pc = "parse"
    /\ \E P \in D.parse, resp \in D.reverse :
          LET r == _parse_address(P.text, P.first, P.second, resp)
          IN  st' = [st EXCEPT ![i] =
                  [@ EXCEPT !.tags = r.tags,
                            !.fix_address_number_non_numeric = r.flagged,
                            !.tag_calls = r.tag_calls,
                            !.tag_results = r.tag_results,
                            !.tag_failed = r.tag_failed,
                            !.expanded = r.expanded,
                            !.reverse_response = r.reverse_response,
                            !.calls = IF r.reverse_response # <<>>
                                      THEN Append(@, "reverse_for_state") ELSE @,
                            !.pc = "s1"]]
    /\ UNCHANGED <<vin, vout, cache, cacheFile, rows>>

\* Variants for comparison: a cascade that goes on after an accepted result,
\* and guards that find no tag missing.
AfterStrategyContinue(ok, next_strategy) == next_strategy
AfterStrategyRaises(ok, next_strategy) == IF ok THEN "finish" ELSE "raised"
MissingTagsNone(tags, required) == <<>>

\* "if ok: return _finish()": an accepted strategy ends the cascade, a failed
\* one hands over to the next
AfterStrategy(ok, next_strategy) == IF ok THEN "finish" ELSE next_strategy

\* the tags of `required` that are absent, in the order of the guard's list
MissingTags(tags, required) ==
    SelectSeq(required, LAMBDA tag : tags[tag] = <<>>)

\* Variant for comparison: a query that failed is issued a second time
TagSearchRetried(i, from, to, search_name, search_spec, required, responses) ==
    /\ st[i].pc = from
    /\ LET s == st[i]
       IN  IF MissingTags(s.tags, required) = <<>> THEN
               \E resp \in responses :
                  LET r == _request(s, _build_query(s.tags, search_spec), search_name,
                                    s.tags.ZipCode, s.tags.PlaceName, resp)
                  IN  st' = [st EXCEPT ![i] =
                          [_append_search_detail(r.s, r.detail) EXCEPT
                              !.primary_error = r.error,
                              !.pc = IF r.ok THEN "finish"
                                     ELSE IF search_name \in Range(s.calls) THEN to
                                     ELSE from]]
           ELSE
               st' = [st EXCEPT ![i] =
                   [_append_search_detail(s, _build_skipped_search_detail(search_name,
                        <<"missing_required_tags:">> \o MissingTags(s.tags, required)))
                    EXCEPT !.pc = to]]
    /\ UNCHANGED <<vin, vout, cache, cacheFile, rows>>

\* Search 1 (etags_nsz) and Search 2 (etags_nscs): attempted when every tag
\* of `required` is present, else recorded as skipped
TagSearch(i, from, to, search_name, search_spec, required, responses) ==
    /\ st[i].pc = from
    /\ LET s == st[i]
           expected_town == s.tags.PlaceName
           expected_zip == s.tags.ZipCode
       IN  IF MissingTags(s.tags, required) = <<>> THEN
               \E resp \in responses :
                  LET r == _request(s, _build_query(s.tags, search_spec), search_name,
                                    expected_zip, expected_town, resp)
                  IN  st' = [st EXCEPT ![i] =
                          [_append_search_detail(r.s, r.detail) EXCEPT
                              !.primary_error = r.error,
                              !.pc = AfterStrategy(r.ok, to)]]
           ELSE
               st' = [st EXCEPT ![i] =
                   [_append_search_detail(s, _build_skipped_search_detail(search_name,
                        <<"missing_required_tags:">> \o MissingTags(s.tags, required)))
                    EXCEPT !.pc = to]]
    /\ UNCHANGED <<vin, vout, cache, cacheFile, rows>>

Search1(i, D) ==
    TagSearch(i, "s1", "s2", "etags_nsz", {"AddressNumber", "StreetName", "ZipCode"},
              <<"StreetName", "ZipCode">>, D.resp1)

\* Variant for comparison: the second step runs strategy 1 once more
Search2RepeatsSearch1(i, D) ==
    TagSearch(i, "s2", "s3", "etags_nsz", {"AddressNumber", "StreetName", "ZipCode"},
              <<"StreetName", "ZipCode">>, D.resp1)

Search2(i, D) ==
    TagSearch(i, "s2", "s3", "etags_nscs",
              {"AddressNumber", "StreetName", "PlaceName", "StateName"},
              <<"StreetName", "PlaceName", "StateName">>, D.resp2)

\* Variant for comparison: strategy 3 reports its own reason whatever the
\* queries before it returned
ErrorOrOwnReason(primary_error, own_reason) == own_reason

\* "primary_error or <reason>": the error the last query returned, and the
\* reason of strategy 3 only when that is empty
ErrorOr(primary_error, own_reason) ==
    IF primary_error # <<>> THEN primary_error ELSE own_reason

\* Search 3 up to the fuzzy match: the road names of the zip from the road
\* store (_postcode_candidates), then _fuzzy_match_road
Search3(i, D) ==
    /\ st[i].pc = "s3"
    /\ LET s == st[i]
           search_name == "zip_street_match_nsz"
           street_value == _build_street_value(s.tags)
           zip_value == s.tags.ZipCode
       IN  IF street_value = <<>> \/ zip_value = <<>> THEN
               st' = [st EXCEPT ![i] =
                   [_append_search_detail(s, _build_skipped_search_detail(search_name,
                        <<"missing_required_tags:StreetName_or_ZipCode">>))
                    EXCEPT !.error = ErrorOr(s.primary_error,
                                             <<"zip_street_match_nsz, missing street or zip">>),
                           !.pc = "finish"]]
           ELSE
               \E db \in D.db :
                  LET called == IF db.kind = "unavailable" THEN s
                                ELSE [s EXCEPT !.calls = Append(@, "postcode_candidates")]
                      lookup_error == CASE db.kind = "unavailable" -> "db_unavailable"
                                        [] db.kind = "timeout" -> "db_timeout"
                                        [] db.kind = "error" -> "db_error"
                                        [] OTHER -> ""
                      candidates == IF db.kind = "ok" THEN db.roads ELSE <<>>
                      match == _fuzzy_match_road(street_value, candidates)
                  IN  st' = [st EXCEPT ![i] =
                          IF lookup_error # "" THEN
                              [_append_search_detail(called,
                                   _build_skipped_search_detail(search_name,
                                       <<"postcode_lookup_error:", lookup_error>>))
                               EXCEPT !.postcode_lookup_error = lookup_error,
                                      !.error = ErrorOr(s.primary_error, <<"No result">>)
                                                    \o <<"; ", lookup_error>>,
                                      !.pc = "finish"]
                          ELSE IF match = <<>> THEN
                              [_append_search_detail(called,
                                   _build_skipped_search_detail(search_name,
                                       <<"no_fuzzy_match">>))
                               EXCEPT !.error = ErrorOr(s.primary_error,
                                                        <<"No fuzzy match for road">>),
                                      !.pc = "finish"]
                          ELSE [called EXCEPT !.street_match = match[1], !.pc = "s3req"]]
    /\ UNCHANGED <<vin, vout, cache, cacheFile, rows>>

\* Search 3, the re-query with the matched road
Search3Request(i, D) ==
    /\ st[i].pc = "s3req"
    /\ \E resp \in D.resp3 :
          LET s == st[i]
              parts == SelectSeq(<<s.tags.AddressNumber, s.street_match, s.tags.ZipCode>>,
                                 LAMBDA part : part # <<>>)
              r == _request(s, parts, "zip_street_match_nsz", s.tags.ZipCode,
                            s.tags.PlaceName, resp)
              s1 == [_append_search_detail(r.s, r.detail) EXCEPT !.primary_error = r.error]
          IN  st' = [st EXCEPT ![i] =
                  IF r.ok THEN [s1 EXCEPT !.pc = AfterStrategy(TRUE, "tiger")]
                  ELSE [s1 EXCEPT !.error = IF r.error # <<>> THEN r.error ELSE @,
                                  !.pc = AfterStrategy(FALSE, "tiger")]]
    /\ UNCHANGED <<vin, vout, cache, cacheFile, rows>>

\* The TIGER extrapolate/snap fallback after a rejected re-query
Tiger(i, D) ==
    /\ st[i].pc = "tiger"
    /\ \E tg \in D.tiger :
          LET s == st[i]
              r == _search_tiger_extrapolate_snap(s, s.tags.ZipCode, s.street_match,
                                                  s.tags.AddressNumber, tg)
              s1 == _append_search_detail(r.s, r.detail)
          IN  st' = [st EXCEPT ![i] =
                  [s1 EXCEPT !.error = IF ~r.ok /\ r.error = <<>> THEN s.error ELSE @,
                             !.pc = "finish"]]
    /\ UNCHANGED <<vin, vout, cache, cacheFile, rows>>

\* the position in the file of the row of `key`, 0 when there is none
FilePos(file, key) ==
    LET hits == {p \in 1..Len(file) : _normalize_cache_key(file[p].address_raw) = key}
    IN  IF hits = {} THEN 0 ELSE Min(hits)

\* search()._finish: the summary fields, then _save_address_cache_entry when
\* saving is on (the class-level map and the rewrite of the whole file from
\* it, under _lookup_lock); in a batch run the tail of process_row follows.
Finish(i, D) ==
    /\ st[i].pc = "finish"
    /\ LET s == st[i]
           successful == s.latitude # <<>> /\ s.longitude # <<>>
           s1 == [s EXCEPT !.search_successful = successful,
                           !.search_method_accepted =
                               IF successful /\ s.method # "" THEN s.method ELSE "none",
                           !.final_error = s.error]
           save == /\ ~D.batch
                   /\ s1.raw_address # <<>>
                   /\ (~s1.address_cache_used \/ s1.cache_entry_missing_metadata)
           key == _normalize_cache_key(s1.raw_address)
           row == _build_cache_row(s1)
       IN  /\ st' = [st EXCEPT ![i] =
                  [s1 EXCEPT !.cache_row = IF D.batch /\ ~s1.address_cache_used
                                              /\ s1.raw_address # <<>>
                                           THEN <<row>> ELSE <<>>,
                             !.pc = "done"]]
           /\ IF save
              THEN /\ cache' = Store(cache, key, row)
                   /\ cacheFile' = IF key \in DOMAIN cache
                                   THEN [cacheFile EXCEPT ![FilePos(cacheFile, key)] = row]
                                   ELSE Append(cacheFile, row)
              ELSE UNCHANGED <<cache, cacheFile>>
    /\ UNCHANGED <<vin, vout, rows>>

\* The result loop of data_add_geocode.main for one completed future: the
\* cache row is appended to the cache file and stored in cache_lookup.
Consume(i) ==
    /\ st[i].pc = "done"
    /\ st' = [st EXCEPT ![i].pc = "consumed"]
    /\ IF st[i].cache_row # <<>>
       THEN /\ cacheFile' = Append(cacheFile, st[i].cache_row[1])
            /\ cache' = Store(cache, _normalize_cache_key(st[i].cache_row[1].address_raw),
                              st[i].cache_row[1])
       ELSE UNCHANGED <<cache, cacheFile>>
    /\ UNCHANGED <<vin, vout, rows>>

-----------------------------------------------------------------------------
(* The environment: tags, candidates and answers the specifications draw    *)
(* their inputs from                                                       *)

\* the resolutions of one run of the concurrent specifications
MaxRows == 2
\* the longest candidate list the search service returns in SpecCascade
MaxResults == 2

SmallBox == [ok |-> TRUE, ns |-> 5000, ew |-> 7000]
LongBox == [ok |-> TRUE, ns |-> 5000, ew |-> max_linear_cm + 1]
EdgeBox == [ok |-> TRUE, ns |-> max_linear_cm, ew |-> 7000]
NoBox == [ok |-> FALSE, ns |-> 0, ew |-> 0]

Address(postcode, city, town, state, iso) ==
    [postcode |-> postcode, city |-> city, town |-> town, village |-> <<>>,
     state |-> state, state_code |-> <<>>, iso_lvl4 |-> iso, iso_lvl6 |-> <<>>]

Candidate(lat, lon, display_name, class, type, place_rank, boundingbox, address) ==
    [lat |-> lat, lon |-> lon, display_name |-> display_name, class |-> class,
     type |-> type, place_rank |-> place_rank, boundingbox |-> boundingbox,
     address |-> address]

\* a house in the tagged zip, town and state
CandGood ==
    Candidate(<<"4","1">>, <<"-","7","1">>, <<"2 Main Street, Jamestown">>, "building",
              "house", 30, SmallBox, Address(T_02835, T_Jamestown, <<>>, T_RhodeIsland, <<>>))
\* a house in the tagged town and state under another postcode
CandCity ==
    Candidate(<<"4","2">>, <<"-","7","2">>, <<"2 Main Street, Jamestown (02840)">>,
              "building", "house", 30, SmallBox,
              Address(T_02840, T_Jamestown, <<>>, T_RhodeIsland, <<>>))
\* the town boundary itself
CandBoundary ==
    Candidate(<<"4","3">>, <<"-","7","3">>, <<"Jamestown">>, "boundary", "administrative",
              16, LongBox, Address(T_02835, T_Jamestown, <<>>, T_RhodeIsland, <<>>))
\* the same street in the other state
CandOtherState ==
    Candidate(<<"4","4">>, <<"-","7","0">>, <<"2 Main Street, Jamestown, MA">>, "building",
              "house", 30, SmallBox,
              Address(<<>>, T_Jamestown, <<>>, <<"M","a","s","s","a","c","h","u","s","e","t","t","s">>,
                      <<>>))

Candidates == {CandGood, CandCity, CandBoundary}

SeqsUpTo(S, n) == UNION {[1..k -> S] : k \in 0..n}

Ok(data) == [kind |-> "ok", data |-> data]
Timeout == [kind |-> "timeout", data |-> <<>>]
RequestError == [kind |-> "error", data |-> <<>>]

Responses(n) == {Timeout, RequestError} \cup {Ok(data) : data \in SeqsUpTo(Candidates, n)}

Tags(number, street, post_type, place, state, zip) ==
    [NoTags EXCEPT !.AddressNumber = number, !.StreetName = street,
                   !.StreetNamePostType = post_type, !.PlaceName = place,
                   !.StateName = state, !.ZipCode = zip]

FullTags == Tags(T_2, T_Main, T_Street, T_Jamestown, T_RI, T_02835)

TagSets ==
    {FullTags,
     Tags(T_2, T_Main, T_Street, T_Jamestown, T_RI, <<>>),
     Tags(T_2, T_Main, T_Street, T_Jamestown, <<>>, <<>>),
     Tags(<<>>, T_Main, T_Street, T_Jamestown, T_RI, T_02835),
     Tags(T_2, <<>>, T_Street, <<>>, T_RI, T_02835),
     NoTags}

\* a normalised address text, and one whose house number repeats the zip digits
T_Address == <<"2"," ","M","a","i","n"," ","S","t"," ","0","2","8","3","5">>
T_AddressTwice == <<"0","2","8","3","5"," ","M","a","i","n"," ","0","2","8","3","5">>

\* the text handed to the parser with the parser's answers to it and to the
\* repaired text
Parse(text, first, second) == [text |-> text, first |-> first, second |-> second]

\* the parser tags the address at once, or fails for good
CascadeParses ==
    {Parse(T_Address, ParseOk(tags), ParseFail(NoTags)) : tags \in TagSets}
        \cup {Parse(T_Address, ParseFail(NoTags), ParseFail(NoTags))}

Road(name, score) == [name |-> name, score |-> score]
DbOk(roads) == [kind |-> "ok", roads |-> roads]
DbFail(kind) == [kind |-> kind, roads |-> <<>>]

Segment(startnumber, endnumber, step, start_lat, start_lon, end_lat, end_lon, geom) ==
    [startnumber |-> startnumber, endnumber |-> endnumber, step |-> step,
     start_lat |-> start_lat, start_lon |-> start_lon,
     end_lat |-> end_lat, end_lon |-> end_lon, geom |-> geom,
     road_name_text |-> <<"Main Street">>]
TigerRows(tiger_rows) == [kind |-> "rows", rows |-> tiger_rows]
TigerFail(kind) == [kind |-> kind, rows |-> <<>>]

\* SpecCascade: one resolution against every answer of the services
DCascade ==
    [batch |-> FALSE,
     parse |-> CascadeParses,
     reverse |-> {Timeout, Ok(<<>>), Ok(<<CandGood>>), Ok(<<CandGood, CandOtherState>>)},
     resp1 |-> Responses(MaxResults),
     resp2 |-> Responses(MaxResults),
     db |-> {DbFail("unavailable"), DbFail("timeout"), DbFail("error"), DbOk(<<>>),
             DbOk(<<Road(<<"Elm Avenue">>, 30)>>),
             DbOk(<<Road(<<"Elm Avenue">>, 30), Road(<<"Main St">>, 100)>>)},
     resp3 |-> {Timeout, Ok(<<CandGood>>), Ok(<<CandBoundary>>)},
     tiger |-> {TigerFail("unavailable"), TigerFail("error"), TigerRows(<<>>),
                TigerRows(<<Segment(NoneInt, 10, NoneInt, 0, 0, 0, 0, TRUE)>>),
                TigerRows(<<Segment(1, 3, NoneInt, 410000000, 0, 410000000, 10000000,
                                    TRUE)>>)}]

\* house numbers as the parser returns them, and unit texts
T_123 == <<"1","2","3">>
T_123A == <<"1","2","3","A">>
T_12_14 == <<"1","2","-","1","4">>
T_A == <<"A">>
T_Apt == <<"A","p","t">>
T_4 == <<"4">>
T_Rear == <<"R","e","a","r">>
T_AddressState == <<"2"," ","M","a","i","n"," ","S","t"," ","R","I"," ","0","2","8","3","5">>

\* tags with the occupancy and sub-address components filled in
WithUnits(tags, occupancy_type, occupancy_id, subaddress_type, subaddress_id) ==
    [tags EXCEPT !.OccupancyType = occupancy_type, !.OccupancyIdentifier = occupancy_id,
                 !.SubaddressType = subaddress_type, !.SubaddressIdentifier = subaddress_id]

\* a street address in Jamestown under the house number the parser returned
Numbered(number) == Tags(number, T_Main, T_Street, T_Jamestown, T_RI, T_02835)

\* what the parser returns for the addresses of SpecTagging: house numbers
\* with letters or a hyphen beside free and occupied unit slots, a zip with
\* and without a state, no state and no zip beside the other tags of the
\* exploratory query, and failures with partial labels
TaggingParses ==
    {Parse(T_Address, ParseOk(FullTags), ParseFail(NoTags)),
     Parse(T_Address, ParseOk(Numbered(T_123A)), ParseFail(NoTags)),
     Parse(T_Address, ParseOk(Numbered(T_12_14)), ParseFail(NoTags)),
     Parse(T_Address, ParseOk(Numbered(T_A)), ParseFail(NoTags)),
     Parse(T_Address, ParseOk(WithUnits(Numbered(T_123A), T_Apt, T_4, <<>>, <<>>)), ParseFail(NoTags)),
     Parse(T_Address, ParseOk(WithUnits(Numbered(T_123A), <<>>, T_4, <<>>, <<>>)), ParseFail(NoTags)),
     Parse(T_Address, ParseOk(WithUnits(Numbered(T_123A), T_Apt, T_4, T_Rear, <<>>)), ParseFail(NoTags)),
     Parse(T_Address, ParseOk(WithUnits(Numbered(T_123A), T_Apt, T_4, T_Rear, T_2)), ParseFail(NoTags)),
     Parse(T_Address, ParseOk(WithUnits(Numbered(T_123), T_Apt, T_4, T_Rear, T_2)), ParseFail(NoTags)),
     Parse(T_Address, ParseOk(Tags(T_2, T_Main, T_Street, T_Jamestown, <<>>, T_02835)), ParseFail(NoTags)),
     Parse(T_Address, ParseOk(Tags(T_2, T_Main, T_Street, T_Jamestown, <<>>, T_99999)), ParseFail(NoTags)),
     Parse(T_Address, ParseOk(Tags(T_2, T_Main, T_Street, T_Jamestown, <<>>, <<>>)), ParseFail(NoTags)),
     Parse(T_Address, ParseOk(Tags(T_2, <<>>, T_Street, T_Jamestown, <<>>, <<>>)), ParseFail(NoTags)),
     Parse(T_Address, ParseOk(Tags(T_2, T_Main, T_Street, <<>>, <<>>, <<>>)), ParseFail(NoTags)),
     Parse(T_Address, ParseOk(Tags(<<>>, T_Main, T_Street, T_Jamestown, <<>>, <<>>)), ParseFail(NoTags)),
     Parse(T_Address, ParseOk(Tags(T_2, T_Main, T_Street, T_Jamestown, T_RI, <<>>)), ParseFail(NoTags)),
     Parse(T_Address, ParseFail(NoTags), ParseOk(FullTags)),
     Parse(T_Address, ParseFail(Tags(T_2, T_Main, <<>>, <<>>, T_RI, <<>>)), ParseOk(FullTags)),
     Parse(T_AddressState, ParseFail(Tags(T_2, T_Main, <<>>, <<>>, T_RI, T_02835)), ParseOk(FullTags)),
     Parse(T_Address, ParseFail(Tags(T_2, T_Main, <<>>, <<>>, <<>>, T_02835)), ParseOk(FullTags)),
     Parse(T_Address, ParseFail(Tags(T_2, T_Main, <<>>, <<>>, <<>>, T_02835)), ParseOk(Numbered(T_123A))),
     Parse(T_Address, ParseFail(Tags(T_2, T_Main, <<>>, <<>>, <<>>, T_02835)), ParseFail(Tags(T_2, T_Main, <<>>, <<>>, T_RI, T_02835))),
     Parse(T_AddressTwice, ParseFail(Tags(T_02835, T_Main, <<>>, <<>>, <<>>, T_02835)), ParseOk(Tags(T_02835, T_Main, <<>>, <<>>, T_RI, T_02835))),
     Parse(<<"2"," ","M","a","i","n"," ","9","9","9","9","9">>, ParseFail(Tags(T_2, T_Main, <<>>, <<>>, <<>>, T_99999)), ParseOk(FullTags))}

\* candidates of the exploratory query: one without a state, and one that
\* spells the state of CandGood in lower case with a blank after it
CandNoState ==
    Candidate(<<"4","5">>, <<"-","7","5">>, <<"Main Street">>, "highway", "residential", 26,
              SmallBox, Address(<<>>, <<>>, <<>>, <<>>, <<>>))
CandLowerState ==
    Candidate(<<"4","6">>, <<"-","7","6">>, <<"2 Main Street, Jamestown, rhode island">>,
              "building", "house", 30, SmallBox,
              Address(T_02835, T_Jamestown, <<>>,
                      <<"r","h","o","d","e"," ","i","s","l","a","n","d"," ">>, <<>>))
CandAbbrevState ==
    Candidate(<<"4","7">>, <<"-","7","7">>, <<"2 Main Street, Jamestown, RI">>, "building",
              "house", 30, SmallBox, Address(T_02835, T_Jamestown, <<>>, T_RI, <<>>))

\* SpecTagging: every answer of the parser and of the exploratory query,
\* before a search service that times out and a road store that knows the street
DTagging ==
    [batch |-> FALSE,
     parse |-> TaggingParses,
     reverse |-> {Timeout, RequestError, Ok(<<>>), Ok(<<CandGood>>), Ok(<<CandNoState>>),
                  Ok(<<CandGood, CandCity>>), Ok(<<CandGood, CandOtherState>>),
                  Ok(<<CandNoState, CandGood>>), Ok(<<CandLowerState, CandGood>>),
                  Ok(<<CandGood, CandAbbrevState>>)},
     resp1 |-> {Timeout},
     resp2 |-> {Timeout, Ok(<<CandGood>>)},
     db |-> {DbOk(<<Road(<<"Main St">>, 100)>>)},
     resp3 |-> {Timeout},
     tiger |-> {TigerFail("error")}]

\* SpecFailing: every query of the search service times out or errors; the
\* road store fails too, or knows the street and then fails on its segments
DFailing ==
    [batch |-> FALSE,
     parse |-> CascadeParses,
     reverse |-> {Timeout, RequestError},
     resp1 |-> {Timeout, RequestError},
     resp2 |-> {Timeout, RequestError},
     db |-> {DbFail("timeout"), DbFail("error"), DbOk(<<Road(<<"Main St">>, 100)>>)},
     resp3 |-> {Timeout, RequestError},
     tiger |-> {TigerFail("error")}]

\* the concurrent specifications: a well-tagged address, a search service that
\* answers the first query or times out, a road store that knows the street
\* and whose segment query fails or returns the segment of the house
DShared(batch) ==
    [batch |-> batch,
     parse |-> {Parse(T_Address, ParseOk(FullTags), ParseFail(NoTags))},
     reverse |-> {Timeout},
     resp1 |-> {Timeout, Ok(<<CandGood>>)},
     resp2 |-> {Timeout},
     db |-> {DbOk(<<Road(<<"Main St">>, 100)>>)},
     resp3 |-> {Timeout},
     tiger |-> {TigerFail("error"),
                TigerRows(<<Segment(1, 3, NoneInt, 410000000, 0, 410000000, 10000000,
                                    TRUE)>>)}]

\* raw addresses: two spellings of one cache key, a blank one, and one the
\* bad-address table rewrites
RawA == <<"a">>
RawA2 == <<" ","A"," ">>
RawBlank == <<" ">>
RawBad == <<"X">>

NoInput == [res |-> CandGood, expected_zip |-> <<>>, expected_town |-> <<>>,
            expected_state |-> <<>>]

-----------------------------------------------------------------------------
(* Specifications                                                          *)

InitRows(choices) ==
    /\ vin = NoInput
    /\ vout = <<>>
    /\ rows \in choices
    /\ st = [i \in DOMAIN rows |-> reset]
    /\ cache = <<>>
    /\ cacheFile = <<>>

\* data_add_geocode.main: the worker pool resolves the rows, the result loop
\* writes the cache rows
Init == InitRows([1..MaxRows -> {RawA, RawA2, RawBad, RawBlank}])

Next ==
    \/ \E i \in Resolutions : Begin(i, DShared(TRUE))
    \/ \E i \in Resolutions : ParseAddress(i, DShared(TRUE))
    \/ \E i \in Resolutions : Search1(i, DShared(TRUE))
    \/ \E i \in Resolutions : Search2(i, DShared(TRUE))
    \/ \E i \in Resolutions : Search3(i, DShared(TRUE))
    \/ \E i \in Resolutions : Search3Request(i, DShared(TRUE))
    \/ \E i \in Resolutions : Tiger(i, DShared(TRUE))
    \/ \E i \in Resolutions : Finish(i, DShared(TRUE))
    \/ \E i \in Resolutions : Consume(i)

Spec == Init /\ [][Next]_vars

\* threads calling search() on instances that save their own cache entries
InitDirect == InitRows([1..MaxRows -> {RawA, RawA2, RawBad, RawBlank}])

NextDirect ==
    \/ \E i \in Resolutions : Begin(i, DShared(FALSE))
    \/ \E i \in Resolutions : ParseAddress(i, DShared(FALSE))
    \/ \E i \in Resolutions : Search1(i, DShared(FALSE))
    \/ \E i \in Resolutions : Search2(i, DShared(FALSE))
    \/ \E i \in Resolutions : Search3(i, DShared(FALSE))
    \/ \E i \in Resolutions : Search3Request(i, DShared(FALSE))
    \/ \E i \in Resolutions : Tiger(i, DShared(FALSE))
    \/ \E i \in Resolutions : Finish(i, DShared(FALSE))

SpecDirect == InitDirect /\ [][NextDirect]_vars

\* one call of search() on a fresh instance with an empty cache
InitCascade == InitRows({<<RawA>>, <<RawBlank>>, <<RawBad>>})

NextCascade ==
    \/ \E i \in Resolutions : Begin(i, DCascade)
    \/ \E i \in Resolutions : ParseAddress(i, DCascade)
    \/ \E i \in Resolutions : Search1(i, DCascade)
    \/ \E i \in Resolutions : Search2(i, DCascade)
    \/ \E i \in Resolutions : Search3(i, DCascade)
    \/ \E i \in Resolutions : Search3Request(i, DCascade)
    \/ \E i \in Resolutions : Tiger(i, DCascade)
    \/ \E i \in Resolutions : Finish(i, DCascade)

SpecCascade == InitCascade /\ [][NextCascade]_vars

\* the same call run by a thread that keeps running until search() returns
SpecCascadeFair == InitCascade /\ [][NextCascade]_vars /\ WF_vars(NextCascade)

\* one call of search() against failing services, run by a thread that keeps
\* running until it returns
InitFailing == InitRows({<<RawA>>, <<RawBlank>>, <<RawBad>>})

NextFailing ==
    \/ \E i \in Resolutions : Begin(i, DFailing)
    \/ \E i \in Resolutions : ParseAddress(i, DFailing)
    \/ \E i \in Resolutions : Search1(i, DFailing)
    \/ \E i \in Resolutions : Search2(i, DFailing)
    \/ \E i \in Resolutions : Search3(i, DFailing)
    \/ \E i \in Resolutions : Search3Request(i, DFailing)
    \/ \E i \in Resolutions : Tiger(i, DFailing)
    \/ \E i \in Resolutions : Finish(i, DFailing)

SpecFailing == InitFailing /\ [][NextFailing]_vars /\ WF_vars(NextFailing)

\* one call of search() for each answer of the parser
InitTagging == InitRows({<<RawA>>})

NextTagging ==
    \/ \E i \in Resolutions : Begin(i, DTagging)
    \/ \E i \in Resolutions : ParseAddress(i, DTagging)
    \/ \E i \in Resolutions : Search1(i, DTagging)
    \/ \E i \in Resolutions : Search2(i, DTagging)
    \/ \E i \in Resolutions : Search3(i, DTagging)
    \/ \E i \in Resolutions : Search3Request(i, DTagging)
    \/ \E i \in Resolutions : Tiger(i, DTagging)
    \/ \E i \in Resolutions : Finish(i, DTagging)

SpecTagging == InitTagging /\ [][NextTagging]_vars

-----------------------------------------------------------------------------
(* nominatim_result_check on its own                                       *)

ValidateClassTypes ==
    {<<"building", "house">>, <<"highway", "residential">>, <<"place", "house">>,
     <<"place", "town">>, <<"boundary", "administrative">>}
ValidateRanks == {NoneInt, min_place_rank - 1, min_place_rank}
ValidateBoxes == {SmallBox, EdgeBox, LongBox, NoBox}
ValidatePostcodes == {<<>>, T_02835, <<"0","2","8","3","5","-","1","2","3","4">>, <<"0","2","8","3","5","1">>, T_02840}
\* city, town
ValidatePlaces ==
    {<<T_Jamestown, <<>>>>, <<<<>>, <<"T","o","w","n"," ","o","f"," ","J","a","m","e","s","t","o","w","n">>>>, <<T_Newport, <<>>>>,
     <<<<>>, <<>>>>}
\* state, ISO3166-2-lvl4
ValidateStates ==
    {<<T_RhodeIsland, <<>>>>, <<<<>>, <<"U","S","-","R","I">>>>, <<T_MA, <<>>>>, <<<<>>, <<>>>>}
ValidateExpectedZips == {<<>>, T_02835, <<" ","0","2","8","3","5","-","0","0","0","1">>}
ValidateExpectedTowns == {<<>>, <<"j","a","m","e","s","t","o","w","n">>}
ValidateExpectedStates == {<<>>, T_RI, <<"r","h","o","d","e"," ","i","s","l","a","n","d">>}

InitValidate ==
    /\ \E ct \in ValidateClassTypes, pr \in ValidateRanks, bbox \in ValidateBoxes,
          postcode \in ValidatePostcodes, place \in ValidatePlaces, state \in ValidateStates,
          expected_zip \in ValidateExpectedZips, expected_town \in ValidateExpectedTowns,
          expected_state \in ValidateExpectedStates :
            vin = [res |-> Candidate(<<"4","1">>, <<"-","7","1">>, <<"candidate">>, ct[1],
                                     ct[2], pr, bbox,
                                     Address(postcode, place[1], place[2], state[1],
                                             state[2])),
                   expected_zip |-> expected_zip,
                   expected_town |-> expected_town,
                   expected_state |-> expected_state]
    /\ vout = <<>>
    /\ rows = <<>>
    /\ st = <<>>
    /\ cache = <<>>
    /\ cacheFile = <<>>

\* one call of nominatim_result_check: vout holds the decision once it returned
Validate ==
    /\ vout = <<>>
    /\ vout' = <<nominatim_result_check(vin.res, vin.expected_zip, vin.expected_town,
                                        vin.expected_state)>>
    /\ UNCHANGED <<vin, st, cache, cacheFile, rows>>

NextValidate == Validate

SpecValidate == InitValidate /\ [][NextValidate]_vars

-----------------------------------------------------------------------------
(* The selection of _search_tiger_extrapolate_snap on its own              *)

\* the most rows the road store returns to one selection
MaxSegments == 3

\* one degree in the unit of the coordinates (1e-7 degree)
Degree == 10000000

\* rows of one street, their endpoints along the parallel of latitude 0: the
\* whole street without a step, even and odd sides, ranges stored high to
\* low (one of them with ends of different parity), a range of one number, a short range inside the long one, a row
\* without geometry and a row whose start number does not parse
TigerSegments ==
    {Segment(100, 200, NoneInt, 0, 0, 0, Degree, TRUE),
     Segment(100, 120, 2, 0, 0, 0, 2000000, TRUE),
     Segment(140, 160, 2, 0, 4000000, 0, 6000000, TRUE),
     Segment(101, 121, 2, 1000, 100000, 1000, 2100000, TRUE),
     Segment(180, 162, 2, 0, 8000000, 0, 6200000, TRUE),
     Segment(160, 141, 2, 2000, 6000000, 2000, 4100000, TRUE),
     Segment(150, 150, NoneInt, 0, 4000000, 2000, 6000000, TRUE),
     Segment(140, 180, NoneInt, 3000, 4000000, 3000, 8000000, TRUE),
     Segment(120, 160, NoneInt, 3000, 2000001, 3000, 6000000, TRUE),
     Segment(100, 200, NoneInt, 0, 0, 0, Degree, FALSE),
     Segment(NoneInt, 200, 2, 0, 0, 0, Degree, TRUE)}

TigerHouseNumbers == {130, 150, 155, 500}

InitTiger ==
    /\ \E house_num \in TigerHouseNumbers, n \in 1..MaxSegments :
          \E tiger_rows \in [1..n -> TigerSegments] :
              vin = [house_num |-> house_num, tiger_rows |-> tiger_rows]
    /\ vout = <<>>
    /\ rows = <<>>
    /\ st = <<>>
    /\ cache = <<>>
    /\ cacheFile = <<>>

\* one selection: vout holds what was selected (nothing when no row is usable)
Select ==
    /\ vout = <<>>
    /\ vout' = <<TigerSelect(vin.house_num, vin.tiger_rows)>>
    /\ UNCHANGED <<vin, st, cache, cacheFile, rows>>

NextTiger == Select

SpecTiger == InitTiger /\ [][NextTiger]_vars

-----------------------------------------------------------------------------
(* repair_zip_ri_ma on its own                                             *)

\* the most tokens of a raw address
MaxTokens == 4

\* pieces of raw addresses: a street named after a state, unit and PO-box
\* markers, a state, a 4-digit and a 5-digit number
ZipTokens ==
    {<<"M","a","s","s","a","c","h","u","s","e","t","t","s"," ","A","v","e",",">>, <<"A","p","t">>, <<"P","O"," ","B","o","x">>, <<"R","I">>, <<"2","8","3","5">>, <<"0","2","8","3","5">>}

\* whole addresses: a ZIP+4, a country after the ZIP, untidy blanks and commas,
\* a state written out, a PO box with full stops, a house number before a
\* street named after a state, a blank address
ZipAddresses ==
    {<<"2"," ","M","a","i","n"," ","S","t",","," ","J","a","m","e","s","t","o","w","n",","," ","R","I"," ","0","2","8","3","5","-","1","2","3","4">>,
     <<"2"," ","M","a","i","n"," ","S","t"," "," ","J","a","m","e","s","t","o","w","n"," ",",","R","I"," ","2","8","3","5"," ","U","S","A">>,
     <<"2"," ","M","a","i","n"," ","S","t",","," ","J","a","m","e","s","t","o","w","n"," ","R","h","o","d","e"," "," ","I","s","l","a","n","d"," ","2","8","3","5">>,
     <<"2"," ","M","a","i","n"," ","S","t",","," ","J","a","m","e","s","t","o","w","n"," ","2","8","3","5"," ","r","h","o","d","e"," ","i","s","l","a","n","d">>,
     <<"P",".","O","."," ","B","o","x"," ","2","8","3","5"," ","R","I">>,
     <<"2"," ","M","a","i","n"," ","S","t"," ","S","u","i","t","e"," ","2","8","3","5",","," ","R","I">>,
     <<"1","2"," ","M","a","i","n"," ","S","t"," ","#"," ","1","5","0","0",","," ","J","a","m","e","s","t","o","w","n"," ","R","I"," ","2","8","3","5">>,
     <<"1","5","0","0"," ","M","a","s","s","a","c","h","u","s","e","t","t","s"," ","A","v","e",","," ","J","a","m","e","s","t","o","w","n"," ","2","8","3","5"," ","R","I">>,
     <<" ">>}

RECURSIVE JoinSpace(_)
JoinSpace(tokens) ==
    IF tokens = <<>> THEN <<>>
    ELSE IF Len(tokens) = 1 THEN tokens[1]
    ELSE tokens[1] \o <<" ">> \o JoinSpace(Tail(tokens))

InitZip ==
    /\ \/ \E n \in 1..MaxTokens : \E tokens \in [1..n -> ZipTokens] : vin = JoinSpace(tokens)
       \/ vin \in ZipAddresses
    /\ vout = <<>>
    /\ rows = <<>>
    /\ st = <<>>
    /\ cache = <<>>
    /\ cacheFile = <<>>

\* one call of repair_zip_ri_ma: vout holds what it returned
RepairZip ==
    /\ vout = <<>>
    /\ vout' = <<repair_zip_ri_ma(vin)>>
    /\ UNCHANGED <<vin, st, cache, cacheFile, rows>>

NextZip == RepairZip

SpecZip == InitZip /\ [][NextZip]_vars

-----------------------------------------------------------------------------
(* The fuzzy road matcher: expand_abbreviations_in_road, smart_score and   *)
(* _fuzzy_match_road on their own                                          *)

\* re.sub(r"[^A-Za-z0-9]+", " ", text) up to the length of the blank runs
AlnumSpaced(s) == [i \in 1..Len(s) |-> IF IsLetter(s[i]) \/ IsDigit(s[i]) THEN s[i] ELSE " "]

\* str.split()
WordEnd(t) ==
    IF \E k \in 1..Len(t) : IsSpace(t[k]) THEN Min({k \in 1..Len(t) : IsSpace(t[k])}) - 1
    ELSE Len(t)
RECURSIVE WordsOfStripped(_)
WordsOfStripped(t) ==
    IF t = <<>> THEN <<>>
    ELSE <<SubSeq(t, 1, WordEnd(t))>>
             \o WordsOfStripped(StripLeft(SubSeq(t, WordEnd(t) + 1, Len(t)), {" ", "\t", "\n"}))
Words(s) == WordsOfStripped(Strip(s))

\* expand_abbreviations_in_road._ABBREVIATIONS
_ABBREVIATIONS ==
    {<<<<"a","v","e">>, <<"a","v","e","n","u","e">>>>,
     <<<<"a","v">>, <<"a","v","e","n","u","e">>>>,
     <<<<"b","l","v","d">>, <<"b","o","u","l","e","v","a","r","d">>>>,
     <<<<"c","i","r">>, <<"c","i","r","c","l","e">>>>,
     <<<<"c","t">>, <<"c","o","u","r","t">>>>,
     <<<<"c","t","r">>, <<"c","e","n","t","e","r">>>>,
     <<<<"c","v">>, <<"c","o","v","e">>>>,
     <<<<"d","r">>, <<"d","r","i","v","e">>>>,
     <<<<"e","x","p","y">>, <<"e","x","p","r","e","s","s","w","a","y">>>>,
     <<<<"e","x","p","w","y">>, <<"e","x","p","r","e","s","s","w","a","y">>>>,
     <<<<"h","w","y">>, <<"h","i","g","h","w","a","y">>>>,
     <<<<"l","n">>, <<"l","a","n","e">>>>,
     <<<<"p","k","w","y">>, <<"p","a","r","k","w","a","y">>>>,
     <<<<"p","l">>, <<"p","l","a","c","e">>>>,
     <<<<"r","d">>, <<"r","o","a","d">>>>,
     <<<<"s","q">>, <<"s","q","u","a","r","e">>>>,
     <<<<"s","t">>, <<"s","t","r","e","e","t">>>>,
     <<<<"t","e","r">>, <<"t","e","r","r","a","c","e">>>>,
     <<<<"t","r","l">>, <<"t","r","a","i","l">>>>,
     <<<<"w","a","y">>, <<"w","a","y">>>>}

\* _ABBREVIATIONS.get(t.lower(), t)
ExpandRoadTokenLower(t, lower) ==
    IF \E pair \in _ABBREVIATIONS : pair[1] = lower
    THEN (CHOOSE pair \in _ABBREVIATIONS : pair[1] = lower)[2]
    ELSE t
ExpandRoadTokens(tokens) ==
    [k \in 1..Len(tokens) |-> ExpandRoadTokenLower(tokens[k], Casefold(tokens[k]))]

expand_abbreviations_in_road(text) == JoinSpace(ExpandRoadTokens(Words(AlnumSpaced(text))))

\* rapidfuzz.utils.default_process, the processor of extractOne: lower case,
\* every other character a blank, trimmed
default_process(s) == Strip(Casefold(AlnumSpaced(s)))

\* rapidfuzz_scorer.canon_tokens, canon_joined
canon_tokens(s) == CollapseWs(AlnumSpaced(Casefold(s)))
canon_joined(s) == SelectSeq(Casefold(s), LAMBDA c : IsLetter(c) \/ IsDigit(c))

\* the ratios of rapidfuzz.fuzz: 100 for equal texts (token_set_ratio: when
\* they have a token), else what the library computes, given as lib
token_set_ratio(a, b, lib) == IF a = b THEN (IF a = <<>> THEN 0 ELSE 100) ELSE lib.token_set
partial_ratio(a, b, lib) == IF a = b THEN 100 ELSE lib.partial
ratio(a, b, lib) == IF a = b THEN 100 ELSE lib.joined

\* rapidfuzz_scorer.smart_score: max(s_tok, s_ngram, 0.9 * s_join); the
\* library ratios of the environment are such that 0.9 * s_join is whole
smart_score(user, cand, lib) ==
    Max2(Max2(token_set_ratio(canon_tokens(user), canon_tokens(cand), lib),
              partial_ratio(canon_tokens(user), canon_tokens(cand), lib)),
         (9 * ratio(canon_joined(user), canon_joined(cand), lib)) \div 10)

\* the score extractOne computes for one candidate of _fuzzy_match_road
RoadScore(target_road, candidate, lib) ==
    smart_score(default_process(expand_abbreviations_in_road(target_road)),
                default_process(expand_abbreviations_in_road(candidate)), lib)

\* the most candidates the road store returns for one zip
MaxRoads == 2

FuzzyTargets == {<<"M","a","i","n"," ","S","t">>, <<"O","a","k"," ","L","a","w","n"," ","A","v","e",".">>, <<"E","l","m">>, <<>>}
FuzzyRoads == {<<"M","a","i","n"," ","S","t","r","e","e","t">>, <<"M","A","I","N"," ","S","T">>, <<"O","a","k","l","a","w","n"," ","A","v","e","n","u","e">>, <<"E","l","m"," ","S","t","r","e","e","t">>}
\* what the library computes for texts that differ: nothing in common, just
\* below and at the threshold, the joined ratio alone above it, nearly equal
LibraryRatios ==
    {[token_set |-> 0, partial |-> 0, joined |-> 0],
     [token_set |-> 60, partial |-> 79, joined |-> 80],
     [token_set |-> 80, partial |-> 50, joined |-> 70],
     [token_set |-> 40, partial |-> 40, joined |-> 90],
     [token_set |-> 95, partial |-> 90, joined |-> 90]}

InitFuzzy ==
    /\ \E target_road \in FuzzyTargets, n \in 0..MaxRoads :
          \E names \in [1..n -> FuzzyRoads], libs \in [1..n -> LibraryRatios] :
              vin = [target_road |-> target_road,
                     candidates |-> [k \in 1..n |-> [name |-> names[k], lib |-> libs[k]]]]
    /\ vout = <<>>
    /\ rows = <<>>
    /\ st = <<>>
    /\ cache = <<>>
    /\ cacheFile = <<>>

\* one call of _fuzzy_match_road: the candidates with the scores extractOne
\* computes; vout holds the match (none: <<>>)
FuzzyMatch ==
    /\ vout = <<>>
    /\ vout' = <<_fuzzy_match_road(vin.target_road,
                     [k \in 1..Len(vin.candidates) |->
                         [name |-> vin.candidates[k].name,
                          score |-> RoadScore(vin.target_road, vin.candidates[k].name,
                                              vin.candidates[k].lib)]])>>
    /\ UNCHANGED <<vin, st, cache, cacheFile, rows>>

NextFuzzy == FuzzyMatch

SpecFuzzy == InitFuzzy /\ [][NextFuzzy]_vars

-----------------------------------------------------------------------------
(* Properties of nominatim_result_check (SpecValidate)                     *)

\* what the call was given, read off the input
ZipEqual ==
    /\ _normalize_zip5(vin.expected_zip) # <<>>
    /\ _normalize_zip5(vin.expected_zip) = _normalize_zip5(vin.res.address.postcode)
TownEqual ==
    \E key \in {"city", "town", "village"} :
        _is_city_level_match(vin.expected_town, vin.res.address[key])
StateEqual ==
    /\ _normalize_state(vin.expected_state) # <<>>
    /\ _normalize_state(vin.expected_state) = _normalize_state(ResultState(vin.res.address))
LocationRejected == "ZIP_OR_CITY_STATE_MISMATCH" \in Range(vout[1].reasons)

\* C7: the candidate is accepted iff no rejection reason fired; the location
\* check passes iff the 5-digit postcodes are equal or both the town and the
\* state match; an empty expected zip never matches, and a town match without
\* a state match (and without a zip match) is rejected.
C7_AcceptIffNoReason ==
    vout # <<>> =>
        /\ vout[1].accepted <=> (vout[1].reasons = <<>>)
        /\ ~LocationRejected <=> (ZipEqual \/ (TownEqual /\ StateEqual))
        /\ _normalize_zip5(vin.expected_zip) = <<>> => ~vout[1].diag.zip_match
        /\ (TownEqual /\ ~StateEqual /\ ~ZipEqual) => LocationRejected /\ ~vout[1].accepted

\* a candidate accepted on town and state alone, its postcode being another one
C7_Witness ==
    /\ vout # <<>>
    /\ vout[1].accepted
    /\ ~ZipEqual
    /\ TownEqual
    /\ StateEqual
    /\ vin.res.address.postcode = T_02840

\* the codes in the order the checks run, and whether each check fails on the input
ReasonOrder ==
    <<"BROAD_CLASS_TYPE", "PLACE_RANK_TOO_LOW", "MISSING_BBOX", "TOO_LONG_FEATURE",
      "ZIP_OR_CITY_STATE_MISMATCH">>
CheckFails(code) ==
    CASE code = "BROAD_CLASS_TYPE" ->
             \/ vin.res.class = "boundary"
             \/ /\ vin.res.class = "place"
                /\ vin.res.type \in {"postcode", "city", "town", "village", "hamlet",
                                     "suburb", "neighbourhood"}
      [] code = "PLACE_RANK_TOO_LOW" ->
             vin.res.place_rank # NoneInt /\ vin.res.place_rank < min_place_rank
      [] code = "MISSING_BBOX" -> ~vin.res.boundingbox.ok
      [] code = "TOO_LONG_FEATURE" ->
             /\ vin.res.boundingbox.ok
             /\ (vin.res.boundingbox.ns > max_linear_cm \/ vin.res.boundingbox.ew > max_linear_cm)
      [] OTHER -> ~(ZipEqual \/ (TownEqual /\ StateEqual))

\* C8: the reasons are exactly the codes of the failing checks in the fixed
\* order, none suppressed by an earlier failure; class boundary always gives
\* BROAD_CLASS_TYPE; the diagnostics carry bbox_max_dim_m, zip_match,
\* city_match and state_match whatever the outcome.
C8_AllChecksReported ==
    vout # <<>> =>
        /\ vout[1].reasons = SelectSeq(ReasonOrder, CheckFails)
        /\ vin.res.class = "boundary" =>
               ~vout[1].accepted /\ "BROAD_CLASS_TYPE" \in Range(vout[1].reasons)
        /\ {"bbox_max_dim_m", "zip_match", "city_match", "state_match"}
               \subseteq DOMAIN vout[1].diag
        /\ vout[1].diag.bbox_max_dim_m = _bbox_max_dim_m(vin.res.boundingbox)
        /\ vout[1].diag.zip_match = ZipEqual
        /\ vout[1].diag.city_match = TownEqual
        /\ vout[1].diag.state_match = StateEqual

\* a boundary failing every check at once
C8_Witness ==
    /\ vout # <<>>
    /\ vin.res.class = "boundary"
    /\ vout[1].reasons = <<"BROAD_CLASS_TYPE", "PLACE_RANK_TOO_LOW", "TOO_LONG_FEATURE",
                           "ZIP_OR_CITY_STATE_MISMATCH">>

-----------------------------------------------------------------------------
(* Properties of the cascade (SpecCascade)                                 *)

StrategyOrder ==
    <<"etags_nsz", "etags_nscs", "zip_street_match_nsz", "tiger_extrapolate_snap">>

\* the external calls of a full cascade, in the order the code issues them
CallOrder ==
    <<"reverse_for_state", "etags_nsz", "etags_nscs", "postcode_candidates",
      "zip_street_match_nsz", "tiger_extrapolate_snap">>

CallRank(name) == CHOOSE k \in DOMAIN CallOrder : CallOrder[k] = name

TraceNames(s) == [k \in DOMAIN s.search_details |-> s.search_details[k].search_name]

\* the resolutions that ran the cascade themselves (no cache hit)
Cascading == {i \in Resolutions : ~st[i].address_cache_used}

\* C3: the names in the search trace follow the fixed order etags_nsz,
\* etags_nscs, zip_street_match_nsz, tiger_extrapolate_snap: entry k is
\* strategy k (so no strategy appears twice, and none before an earlier one
\* has its entry, attempted or skipped), and the external calls are issued in
\* that order too, each at most once.
C3_FixedOrder ==
    \A i \in Cascading :
        /\ Len(st[i].search_details) <= Len(StrategyOrder)
        /\ \A k \in DOMAIN st[i].search_details : TraceNames(st[i])[k] = StrategyOrder[k]
        /\ \A p, q \in DOMAIN st[i].calls :
               p < q => CallRank(st[i].calls[p]) < CallRank(st[i].calls[q])

\* a resolution that went through all four strategies, the first two skipped
C3_Witness ==
    \E i \in Cascading :
        /\ st[i].pc = "done"
        /\ TraceNames(st[i]) = StrategyOrder
        /\ ~st[i].search_details[1].attempted
        /\ ~st[i].search_details[2].attempted
        /\ st[i].search_details[4].result_check = "accepted"
        /\ st[i].calls = <<"postcode_candidates", "zip_street_match_nsz",
                           "tiger_extrapolate_snap">>

AcceptedEntries(s) ==
    {k \in DOMAIN s.search_details : s.search_details[k].result_check = "accepted"}

\* C4: once a strategy has an accepted result the cascade is over: its entry
\* is the last of the trace, its call the last call issued, the resolution is
\* finishing or has returned, and the coordinates, display name and accepted
\* method returned are those of that strategy's accepted candidate.
C4_StopsAtFirstAccepted ==
    \A i \in Cascading : \A k \in AcceptedEntries(st[i]) :
        LET s == st[i]
            e == s.search_details[k]
        IN  /\ k = Len(s.search_details)
            /\ s.calls # <<>> /\ s.calls[Len(s.calls)] = e.search_name
            /\ s.pc \in {"finish", "done", "consumed"}
            /\ s.method = e.search_name
            /\ e.search_name # "tiger_extrapolate_snap" =>
                   /\ s.latitude = s.response[e.accepted_result_index + 1].lat
                   /\ s.longitude = s.response[e.accepted_result_index + 1].lon
                   /\ s.nominatim_address = s.response[e.accepted_result_index + 1].display_name
            /\ s.result_metadata # <<>>
            /\ s.result_metadata[1].search_name = e.search_name
            /\ s.result_metadata[1].lat = s.latitude
            /\ s.result_metadata[1].lon = s.longitude
            /\ s.pc \in {"done", "consumed"} =>
                   s.search_successful /\ s.search_method_accepted = e.search_name

\* strategy 2 accepted after strategy 1 was rejected: strategies 3 and 4 never ran
C4_Witness ==
    \E i \in Cascading :
        /\ st[i].pc = "done"
        /\ TraceNames(st[i]) = <<"etags_nsz", "etags_nscs">>
        /\ st[i].search_details[1].result_check = "rejected"
        /\ st[i].search_details[2].result_check = "accepted"
        /\ st[i].search_method_accepted = "etags_nscs"
        /\ st[i].latitude = CandGood.lat

Present(tags, names) == \A tag \in names : tags[tag] # <<>>

Called(s, search_name) == search_name \in Range(s.calls)

\* the record of a strategy left out for missing tags
SkippedForTags(e) ==
    /\ ~e.attempted
    /\ e.result_status = "skipped"
    /\ e.result_check_reason # <<>>
    /\ e.result_check_reason[1] \in {"missing_required_tags:",
                                     "missing_required_tags:StreetName_or_ZipCode"}

\* the tags the statement lists for each strategy
ListedTagsPresent(s, search_name) ==
    CASE search_name = "etags_nsz" ->
             Present(s.tags, {"AddressNumber", "StreetName", "ZipCode"})
      [] search_name = "etags_nscs" ->
             Present(s.tags, {"AddressNumber", "StreetName", "PlaceName", "StateName"})
      [] search_name = "zip_street_match_nsz" ->
             _build_street_value(s.tags) # <<>> /\ s.tags.ZipCode # <<>>
      [] OTHER ->
             /\ _parse_house_number_int(s.tags.AddressNumber) # NoneInt
             /\ s.street_match # <<>>
             /\ s.tags.ZipCode # <<>>

LastQueryEntry(s) ==
    IF /\ s.search_details # <<>>
       /\ s.search_details[Len(s.search_details)].attempted
       /\ s.search_details[Len(s.search_details)].result_status = "returned"
       /\ s.search_details[Len(s.search_details)].search_name # "tiger_extrapolate_snap"
    THEN <<s.search_details[Len(s.search_details)]>>
    ELSE <<>>

\* passes the class/type, place-rank and bounding-box checks
ShapeAccepted(res) ==
    /\ ~_denylisted_class_type(res)
    /\ ~(res.place_rank # NoneInt /\ res.place_rank < min_place_rank)
    /\ _bbox_max_dim_m(res.boundingbox) # NoneInt
    /\ _bbox_max_dim_m(res.boundingbox) <= max_linear_cm

TownAndStateMatch(tags, res) ==
    /\ _city_match_from_address_levels(tags.PlaceName, res.address) # <<>>
    /\ _normalize_state(tags.StateName) # <<>>
    /\ _normalize_state(tags.StateName) = _normalize_state(ResultState(res.address))

\* C6: every candidate a cascade strategy validates that passes the
\* class/type, place-rank and bounding-box checks and matches the tagged
\* PlaceName and StateName is accepted, whatever its postcode and whether or
\* not a zip was tagged.
C6_TownAndStateAccepted ==
    \A i \in Cascading : \A k \in DOMAIN LastQueryEntry(st[i]) :
        LET e == LastQueryEntry(st[i])[k]
        IN  \A j \in DOMAIN e.results :
                (ShapeAccepted(st[i].response[j]) /\ TownAndStateMatch(st[i].tags, st[i].response[j]))
                    => e.results[j].accepted

\* every resolution has returned
AllReturned == \A i \in Resolutions : st[i].pc = "done"

\* no external call of the resolution was issued twice
NoCallTwice(s) == \A p, q \in DOMAIN s.calls : p # q => s.calls[p] # s.calls[q]

\* the trace entries of queries that ended in a timeout or a request or
\* database error
ErrorEntries(s) ==
    {k \in DOMAIN s.search_details :
        s.search_details[k].attempted /\ s.search_details[k].result_status = "error"}

\* the road-name lookup of strategy 3 was issued and failed
RoadLookupFailed(s) == s.postcode_lookup_error \in {"db_timeout", "db_error"}

\* every external call the resolution issued failed
AllCallsFailed(s) ==
    /\ s.calls # <<>>
    /\ \A k \in DOMAIN s.search_details :
           s.search_details[k].attempted
               => s.search_details[k].result_status \in {"error", "skipped"}
    /\ "postcode_candidates" \in Range(s.calls) => RoadLookupFailed(s)
    /\ "reverse_for_state" \in Range(s.calls) => s.reverse_response[1].kind # "ok"

FailedResult(s) ==
    /\ s.latitude = <<>>
    /\ s.longitude = <<>>
    /\ s.error # <<>>
    /\ ~s.search_successful
    /\ s.search_method_accepted = "none"

\* C11 as stated: no call is issued twice, and after every failed call of a
\* strategy before the last the failure is that strategy's recorded error and
\* the next strategy in the fixed order has its entry in the trace, the
\* road-name lookup of strategy 3 included.
C11_FailureProceedsToNext ==
    \A i \in Cascading :
        st[i].pc = "done" =>
            /\ NoCallTwice(st[i])
            /\ \A k \in ErrorEntries(st[i]) :
                   /\ st[i].search_details[k].error # <<>>
                   /\ k < Len(StrategyOrder) =>
                          /\ Len(st[i].search_details) > k
                          /\ st[i].search_details[k + 1].search_name = StrategyOrder[k + 1]
            /\ RoadLookupFailed(st[i]) =>
                   /\ Len(st[i].search_details) = Len(StrategyOrder)
                   /\ st[i].search_details[4].search_name = "tiger_extrapolate_snap"

\* what holds of a returned resolution after failed calls
FailureEndsStrategy(s) ==
    /\ NoCallTwice(s)
    /\ \A k \in ErrorEntries(s) :
           /\ s.search_details[k].error # <<>>
           /\ s.search_details[k].result_check # "accepted"
           /\ k < Len(StrategyOrder) =>
                  /\ Len(s.search_details) > k
                  /\ s.search_details[k + 1].search_name = StrategyOrder[k + 1]
    /\ RoadLookupFailed(s) =>
           /\ Len(s.search_details) = 3
           /\ ~s.search_details[3].attempted
           /\ s.search_details[3].result_status = "skipped"
           /\ s.search_details[3].result_check_reason
                  = <<"postcode_lookup_error:", s.postcode_lookup_error>>
           /\ "zip_street_match_nsz" \notin Range(s.calls)
           /\ "tiger_extrapolate_snap" \notin Range(s.calls)
           /\ s.error # <<>>
           /\ s.error[Len(s.error)] = s.postcode_lookup_error
           /\ FailedResult(s)
    /\ AllCallsFailed(s) => FailedResult(s)

\* C11: no external call is issued twice in a resolution; a search-service
\* query that times out or errors is recorded as the error of its strategy
\* and the next strategy in the fixed order follows (TIGER after the re-query
\* of strategy 3); a failed road-name lookup of strategy 3 ends the cascade
\* there, recorded as a skipped entry with reason postcode_lookup_error and
\* without a TIGER entry; a resolution whose every call fails returns a
\* failed result; and every resolution returns.
C11_FailedCallNotRetried ==
    /\ [](\A i \in Cascading : st[i].pc = "done" => FailureEndsStrategy(st[i]))
    /\ <>[]AllReturned

\* a resolution that returned after three timeouts, the last one of the road store
C11_Witness ==
    \E i \in Cascading :
        /\ st[i].pc = "done"
        /\ st[i].calls = <<"etags_nsz", "etags_nscs", "postcode_candidates">>
        /\ st[i].search_details[1].error = <<"Timeout">>
        /\ st[i].search_details[2].error = <<"Timeout">>
        /\ st[i].postcode_lookup_error = "db_timeout"
        /\ FailedResult(st[i])

\* C12: every call of search() returns (it reaches its return whatever the
\* raw address, the parser and the services answer, and is never left at a
\* position without a handler), and a call that returns without an accepted
\* strategy returns empty latitude and longitude and a non-empty error.
C12_AlwaysReturns ==
    /\ [](\A i \in Resolutions :
            (st[i].pc = "done" /\ AcceptedEntries(st[i]) = {}) =>
                /\ st[i].latitude = <<>>
                /\ st[i].longitude = <<>>
                /\ st[i].error # <<>>)
    /\ <>(\A i \in Resolutions : st[i].pc = "done")

\* a call that returned after candidates were returned and none was accepted
C12_Witness ==
    \E i \in Resolutions :
        /\ st[i].pc = "done"
        /\ AcceptedEntries(st[i]) = {}
        /\ \E k \in DOMAIN st[i].search_details : st[i].search_details[k].result_status = "returned"
        /\ Len(st[i].search_details) = Len(StrategyOrder)
        /\ st[i].latitude = <<>>
        /\ st[i].error # <<>>

-----------------------------------------------------------------------------
(* Properties of the tagging stage (SpecTagging)                           *)

\* the resolutions whose tagging stage has run
Parsed == {i \in Resolutions : st[i].tag_calls # <<>>}

\* the state of the postal-code table followed by a blank and the zip
StateBeforeZip(zip) == by_zipcode(zip) \o <<" ">> \o zip

\* C13: the parser is invoked once or twice.  It is invoked a second time only
\* after the first invocation failed with partial tags that hold a ZipCode and
\* no StateName, and then on the first text with the state of the postal-code
\* table inserted before the zip (taking the inserted state out again gives
\* the first text back).  A first failure without ZipCode or with StateName
\* ends the stage without tags and without a second invocation, and so does a
\* failure of the second invocation.
C13_ParserAtMostTwice ==
    \A i \in Parsed :
        LET s == st[i]
            first == s.tag_results[1]
        IN  /\ Len(s.tag_calls) \in {1, 2}
            /\ Len(s.tag_results) = Len(s.tag_calls)
            /\ first.ok => Len(s.tag_calls) = 1
            /\ (~first.ok /\ (first.tags.ZipCode = <<>> \/ first.tags.StateName # <<>>)) =>
                   /\ Len(s.tag_calls) = 1
                   /\ s.tag_failed
                   /\ s.tags = NoTags
            /\ Len(s.tag_calls) = 2 =>
                   /\ ~first.ok
                   /\ first.tags.ZipCode # <<>>
                   /\ first.tags.StateName = <<>>
                   /\ by_zipcode(first.tags.ZipCode) # <<>>
                   /\ Contains(s.tag_calls[2], StateBeforeZip(first.tags.ZipCode))
                   /\ Len(s.tag_calls[2]) > Len(s.tag_calls[1])
                   /\ Replace(s.tag_calls[2], StateBeforeZip(first.tags.ZipCode),
                              first.tags.ZipCode) = s.tag_calls[1]
                   /\ ~s.tag_results[2].ok => (s.tag_failed /\ s.tags = NoTags)

\* a second invocation on "2 Main St RI 02835" that succeeded
C13_Witness ==
    \E i \in Parsed :
        /\ st[i].tag_calls = <<T_Address, T_AddressState>>
        /\ ~st[i].tag_results[1].ok
        /\ st[i].tag_results[2].ok
        /\ ~st[i].tag_failed
        /\ st[i].tags.ZipCode = T_02835

\* C14: a resolution whose tagging stage failed permanently goes on without
\* tags: it issues no call to the search service or the road store, every
\* strategy it records is skipped, and it returns (the position after the
\* stage is the cascade's, not an exception) with empty coordinates and a
\* non-empty error.
C14_TaggingFailureNoCalls ==
    \A i \in Parsed :
        st[i].tag_failed =>
            /\ st[i].tags = NoTags
            /\ st[i].calls = <<>>
            /\ st[i].pc \in {"s1", "s2", "s3", "finish", "done"}
            /\ \A k \in DOMAIN st[i].search_details :
                   /\ ~st[i].search_details[k].attempted
                   /\ st[i].search_details[k].result_status = "skipped"
            /\ st[i].pc \in {"finish", "done"} =>
                   /\ st[i].latitude = <<>>
                   /\ st[i].longitude = <<>>
                   /\ st[i].error # <<>>
                   /\ Len(st[i].search_details) = 3

\* a resolution that returned after the second invocation of the parser failed
C14_Witness ==
    \E i \in Parsed :
        /\ st[i].pc = "done"
        /\ st[i].tag_failed
        /\ Len(st[i].tag_calls) = 2
        /\ st[i].calls = <<>>
        /\ st[i].error # <<>>
        /\ st[i].latitude = <<>>

\* the resolutions whose tagging stage completed with tags
Completed == {i \in Parsed : ~st[i].tag_failed}

\* the tags the parser returned to the invocation the stage went on with
ParserTags(s) == s.tag_results[Len(s.tag_results)].tags

\* the number the parser returned has characters that are not digits
HasNonDigits(s) ==
    ParserTags(s).AddressNumber # <<>> /\ ~IsDigitText(ParserTags(s).AddressNumber)

OccupancySlotTaken(raw) == raw.OccupancyType # <<>> \/ raw.OccupancyIdentifier # <<>>
SubaddressSlotTaken(raw) == raw.SubaddressType # <<>> \/ raw.SubaddressIdentifier # <<>>

\* the values the parser returned for the two slots are all still there
SlotValuesKept(raw, tags) ==
    /\ raw.OccupancyType # <<>> => tags.OccupancyType = abbreviations(raw.OccupancyType)
    /\ raw.OccupancyIdentifier # <<>> => tags.OccupancyIdentifier = raw.OccupancyIdentifier
    /\ raw.SubaddressType # <<>> => tags.SubaddressType = raw.SubaddressType
    /\ raw.SubaddressIdentifier # <<>> => tags.SubaddressIdentifier = raw.SubaddressIdentifier

\* C16: when the number the parser returned has characters that are not
\* digits, the case is flagged, no value the parser returned for the occupancy
\* or the sub-address slot is overwritten, the other characters become the
\* identifier of a slot that held nothing, and when both slots hold something
\* AddressNumber keeps the value the parser returned.
C16_RemainderToFreeSlot ==
    \A i \in Completed :
        LET s == st[i]
            raw == ParserTags(s)
        IN  HasNonDigits(s) =>
                /\ s.fix_address_number_non_numeric
                /\ SlotValuesKept(raw, s.expanded)
                /\ ~OccupancySlotTaken(raw) =>
                       s.expanded.OccupancyIdentifier = NonDigitsOf(raw.AddressNumber)
                /\ (OccupancySlotTaken(raw) /\ ~SubaddressSlotTaken(raw)) =>
                       s.expanded.SubaddressIdentifier = NonDigitsOf(raw.AddressNumber)
                /\ (OccupancySlotTaken(raw) /\ SubaddressSlotTaken(raw)) =>
                       s.expanded.AddressNumber = raw.AddressNumber

\* the exploratory state query was issued
Explored(s) == s.reverse_response # <<>>

\* the states of the candidates the query returned, without the candidates
\* that carry none, in the order returned; nothing when the query failed
StatesReturned(s) ==
    LET resp == s.reverse_response[1]
    IN  IF resp.kind # "ok" THEN <<>>
        ELSE SelectSeq([k \in DOMAIN resp.data |-> Strip(resp.data[k].address.state)],
                       LAMBDA name : name # <<>>)

\* the candidates that carry a state returned one state, case and outer
\* blanks aside
StatesAgree(s) ==
    /\ StatesReturned(s) # <<>>
    /\ \A p, q \in DOMAIN StatesReturned(s) :
           Strip(Casefold(StatesReturned(s)[p])) = Strip(Casefold(StatesReturned(s)[q]))

\* how often the query was issued
TimesExplored(s) == Cardinality({k \in DOMAIN s.calls : s.calls[k] = "reverse_for_state"})

\* C17 as stated: the query is issued only without StateName and ZipCode and
\* with AddressNumber, StreetName and PlaceName, at most once, and StateName
\* is adopted exactly when the returned candidates' states agree.
C17_QueryNeedsStreetName ==
    \A i \in Completed :
        LET s == st[i]
        IN  /\ TimesExplored(s) <= 1
            /\ Explored(s) =>
                   /\ s.expanded.StateName = <<>> /\ s.expanded.ZipCode = <<>>
                   /\ s.expanded.AddressNumber # <<>>
                   /\ s.expanded.StreetName # <<>>
                   /\ s.expanded.PlaceName # <<>>
                   /\ (s.tags.StateName # <<>>) <=> StatesAgree(s)

\* C17: the query is issued exactly when StateName and ZipCode are absent
\* and AddressNumber, a street value (StreetName or StreetNamePostType) and
\* PlaceName are present, and at most once.  StateName is adopted exactly
\* when the query succeeded and the candidates that carry a state all carry
\* the same one, case and outer blanks aside; the value adopted is the state
\* of the first such candidate as returned.  Otherwise (failure, no
\* candidate with a state, different states, a full name beside an
\* abbreviation) the tags stay as they were.
C17_ExploratoryQuery ==
    \A i \in Completed :
        LET s == st[i]
        IN  /\ TimesExplored(s) <= 1
            /\ TimesExplored(s) = Len(s.reverse_response)
            /\ Explored(s) <=>
                   /\ s.expanded.StateName = <<>> /\ s.expanded.ZipCode = <<>>
                   /\ s.expanded.AddressNumber # <<>>
                   /\ s.expanded.StreetName # <<>> \/ s.expanded.StreetNamePostType # <<>>
                   /\ s.expanded.PlaceName # <<>>
            /\ ~Explored(s) => s.tags = s.expanded
            /\ (Explored(s) /\ StatesAgree(s)) =>
                   s.tags = [s.expanded EXCEPT !.StateName = StatesReturned(s)[1]]
            /\ (Explored(s) /\ ~StatesAgree(s)) => s.tags = s.expanded
            /\ (Explored(s) /\ s.reverse_response[1] \in {Timeout, RequestError, Ok(<<>>), Ok(<<CandGood, CandOtherState>>), Ok(<<CandGood, CandAbbrevState>>)}) =>
                   s.tags.StateName = <<>>

\* a query for tags without StreetName whose candidates spell one state in
\* two ways: the first spelling is adopted
C17_Witness ==
    \E i \in Completed :
        /\ st[i].expanded = Tags(T_2, <<>>, T_Street, T_Jamestown, <<>>, <<>>)
        /\ st[i].reverse_response = <<Ok(<<CandLowerState, CandGood>>)>>
        /\ st[i].tags.StateName = <<"r","h","o","d","e"," ","i","s","l","a","n","d">>
        /\ st[i].calls[1] = "reverse_for_state"

-----------------------------------------------------------------------------
(* Properties of the TIGER selection (SpecTiger)                           *)

\* the rows of the input as the selection reads them
Ranges == [i \in DOMAIN vin.tiger_rows |-> TigerRange(vin.tiger_rows[i], vin.house_num)]

\* rows with a parsable range and full endpoint geometry, those of them that
\* pass the parity test, and those of these whose range holds the house number
UsableSegments == {i \in DOMAIN Ranges : Ranges[i].usable}
PassingSegments == {i \in UsableSegments : Ranges[i].parity_ok}
ContainingSegments ==
    {i \in PassingSegments : Ranges[i].low <= vin.house_num /\ vin.house_num <= Ranges[i].high}

\* the selection has returned, and what it returned
Selected == vout # <<>>
Selection == vout[1][1]

\* the point at fraction num/den of the way from the (lat, lon) pair a to b
PointBetween(a, b, num, den) ==
    [lat |-> _lerp(a[1], b[1], num, den), lon |-> _lerp(a[2], b[2], num, den)]

LowPoint(i) == <<Ranges[i].low_lat, Ranges[i].low_lon>>
HighPoint(i) == <<Ranges[i].high_lat, Ranges[i].high_lon>>

SelectedPoint == [lat |-> Selection.lat, lon |-> Selection.lon]

\* C18: when a parity-passing segment holds the house number, the selection
\* is mode extrapolated, from a containing parity-passing segment of the
\* smallest span and, among those, of the midpoint nearest the number, at
\* fraction (house_number - low) / (high - low) of the way from its low to
\* its high endpoint, 0.5 when the span is 0; the one segment [100,200] from
\* (0,0) to (0,1) with house number 150 gives longitude 0.5.
C18_InsideInterpolated ==
    (Selected /\ ContainingSegments # {}) =>
        /\ vout[1] # <<>>
        /\ Selection.mode = "extrapolated"
        /\ Selection.logic = "within_range_interpolation"
        /\ \E b \in ContainingSegments :
               /\ \A c \in ContainingSegments :
                      \/ Ranges[b].high - Ranges[b].low < Ranges[c].high - Ranges[c].low
                      \/ /\ Ranges[b].high - Ranges[b].low = Ranges[c].high - Ranges[c].low
                         /\ Ranges[b].mid_dist <= Ranges[c].mid_dist
               /\ Selection.indices = <<b - 1>>
               /\ SelectedPoint =
                      IF Ranges[b].high > Ranges[b].low
                      THEN PointBetween(LowPoint(b), HighPoint(b),
                                        vin.house_num - Ranges[b].low,
                                        Ranges[b].high - Ranges[b].low)
                      ELSE PointBetween(LowPoint(b), HighPoint(b), 1, 2)
        /\ (vin.house_num = 150
               /\ vin.tiger_rows = <<Segment(100, 200, NoneInt, 0, 0, 0, Degree, TRUE)>>) =>
               SelectedPoint = [lat |-> 0, lon |-> Degree \div 2]

\* the segment [100,200] after a shorter containing one: house number 150,
\* the shorter segment [120,160] is used, at fraction 30/40
C18_Witness ==
    /\ Selected
    /\ vin.house_num = 150
    /\ vin.tiger_rows = <<Segment(100, 200, NoneInt, 0, 0, 0, Degree, TRUE),
                          Segment(120, 160, NoneInt, 3000, 2000001, 3000, 6000000, TRUE)>>
    /\ Selection.mode = "extrapolated"
    /\ Selection.indices = <<1>>
    /\ Selection.lon = 5000000

\* one parity-passing segment before another in house-number order (low
\* number, then high number, then the order returned)
Before(i, j) ==
    \/ KeyLess(<<Ranges[i].low, Ranges[i].high>>, <<Ranges[j].low, Ranges[j].high>>)
    \/ (Ranges[i].low = Ranges[j].low /\ Ranges[i].high = Ranges[j].high /\ i < j)

\* parity-passing segments next to each other in house-number order, the
\* house number strictly between the high number of the left one and the low
\* number of the right one
BracketingPairs ==
    {p \in PassingSegments \X PassingSegments :
        /\ Before(p[1], p[2])
        /\ ~\E k \in PassingSegments : Before(p[1], k) /\ Before(k, p[2])
        /\ Ranges[p[1]].high < vin.house_num
        /\ vin.house_num < Ranges[p[2]].low}

Gap(p) == Ranges[p[2]].low - Ranges[p[1]].high

\* C19: when no parity-passing segment holds the house number and two
\* parity-passing segments adjacent in house-number order bracket it, the
\* selection is mode extrapolated, between the high endpoint of the left and
\* the low endpoint of the right segment of a bracketing pair with the
\* smallest gap, at the fraction of the gap the number has reached; segments
\* ending at 120 and starting at 140 with house number 130 give the middle
\* of the two endpoints whatever parity-failing or unusable rows come with them.
C19_BracketInterpolated ==
    (Selected /\ ContainingSegments = {} /\ BracketingPairs # {}) =>
        /\ vout[1] # <<>>
        /\ Selection.mode = "extrapolated"
        /\ \E p \in BracketingPairs :
               /\ \A q \in BracketingPairs : Gap(p) <= Gap(q)
               /\ SelectedPoint = PointBetween(HighPoint(p[1]), LowPoint(p[2]),
                                               vin.house_num - Ranges[p[1]].high, Gap(p))
        /\ (/\ vin.house_num = 130
            /\ \E i, j \in PassingSegments : Ranges[i].high = 120 /\ Ranges[j].low = 140
            /\ \A i \in PassingSegments : Ranges[i].high = 120 \/ Ranges[i].low = 140) =>
               \E i, j \in PassingSegments :
                   /\ Ranges[i].high = 120 /\ Ranges[j].low = 140
                   /\ SelectedPoint = PointBetween(HighPoint(i), LowPoint(j), 1, 2)

\* no usable row, or no parity-passing segment that holds the house number
\* and no bracketing pair
C20_Beyond == ContainingSegments = {} /\ BracketingPairs = {}

\* the endpoints <<number, lat, lon>> of a set of segments
EndpointsOf(segments) ==
    {<<Ranges[i].low, Ranges[i].low_lat, Ranges[i].low_lon>> : i \in segments}
        \cup {<<Ranges[i].high, Ranges[i].high_lat, Ranges[i].high_lon>> : i \in segments}

\* C20: when no parity-passing segment holds the house number and no
\* bracketing pair exists, the selection is mode snapped and its coordinate
\* is, unchanged, that of an endpoint whose house number is nearest the
\* target, among the endpoints of the parity-passing segments when there is
\* one and of all usable segments otherwise; without a usable segment nothing
\* is selected; the one segment [100,200] with house number 500 gives the
\* endpoint of 200.
C20_SnapsToNearest ==
    (Selected /\ C20_Beyond) =>
        /\ UsableSegments = {} <=> vout[1] = <<>>
        /\ UsableSegments # {} =>
               /\ Selection.mode = "snapped"
               /\ \E ep \in EndpointsOf(IF PassingSegments # {} THEN PassingSegments
                                        ELSE UsableSegments) :
                      /\ \A other \in EndpointsOf(IF PassingSegments # {} THEN PassingSegments
                                                  ELSE UsableSegments) :
                             Abs(vin.house_num - ep[1]) <= Abs(vin.house_num - other[1])
                      /\ SelectedPoint = [lat |-> ep[2], lon |-> ep[3]]
        /\ (vin.house_num = 500
               /\ vin.tiger_rows = <<Segment(100, 200, NoneInt, 0, 0, 0, Degree, TRUE)>>) =>
               SelectedPoint = [lat |-> 0, lon |-> Degree]

\* house number 130 beside the even side ending at 120 and the nearer odd
\* side ending at 121: the endpoint of 120 is used
C20_Witness ==
    /\ Selected
    /\ vin.house_num = 130
    /\ vin.tiger_rows = <<Segment(100, 120, 2, 0, 0, 0, 2000000, TRUE),
                          Segment(101, 121, 2, 1000, 100000, 1000, 2100000, TRUE)>>
    /\ Selection.mode = "snapped"
    /\ SelectedPoint = [lat |-> 0, lon |-> 2000000]

\* the low number of a row as stored
LowOf(row) == IF row.startnumber <= row.endnumber THEN row.startnumber ELSE row.endnumber
HighOf(row) == IF row.startnumber <= row.endnumber THEN row.endnumber ELSE row.startnumber

\* the selection was given one usable row whose range holds the house number
OneRowHolding ==
    /\ Len(vin.tiger_rows) = 1
    /\ UsableSegments = {1}
    /\ LowOf(vin.tiger_rows[1]) <= vin.house_num
    /\ vin.house_num <= HighOf(vin.tiger_rows[1])

\* C21 as stated: a segment passes the parity test exactly when its step is
\* not 2 or the house number has the parity of the low number of its range,
\* and a single segment that holds the number is interpolated exactly then.
C21_ParityOfLow ==
    Selected =>
        /\ \A i \in UsableSegments :
               Ranges[i].parity_ok <=>
                   \/ vin.tiger_rows[i].step # 2
                   \/ vin.house_num % 2 = LowOf(vin.tiger_rows[i]) % 2
        /\ OneRowHolding =>
               (Selection.mode = "extrapolated" <=>
                   \/ vin.tiger_rows[1].step # 2
                   \/ vin.house_num % 2 = LowOf(vin.tiger_rows[1]) % 2)

\* C21: a segment passes the parity test exactly when its step is not 2 or
\* the house number has the parity of the start number as stored, whichever
\* end of the range that is; this is the parity of the low number whenever
\* the two ends of the range have one parity.  A single segment that holds
\* the number is interpolated exactly when it passes, and snapped otherwise.
C21_ParityOfStart ==
    Selected =>
        /\ \A i \in UsableSegments :
               /\ Ranges[i].parity_ok <=>
                      \/ vin.tiger_rows[i].step # 2
                      \/ vin.house_num % 2 = vin.tiger_rows[i].startnumber % 2
               /\ vin.tiger_rows[i].startnumber % 2 = vin.tiger_rows[i].endnumber % 2 =>
                      (Ranges[i].parity_ok <=>
                          \/ vin.tiger_rows[i].step # 2
                          \/ vin.house_num % 2 = LowOf(vin.tiger_rows[i]) % 2)
        /\ OneRowHolding =>
               /\ Selection.mode = "extrapolated" <=>
                      \/ vin.tiger_rows[1].step # 2
                      \/ vin.house_num % 2 = vin.tiger_rows[1].startnumber % 2
               /\ Selection.mode \in {"extrapolated", "snapped"}

\* house number 150 on the segment stored from 160 down to 141 with step 2:
\* the start number is even, the low number odd, and the number is interpolated
C21_Witness ==
    /\ Selected
    /\ vin.house_num = 150
    /\ vin.tiger_rows = <<Segment(160, 141, 2, 2000, 6000000, 2000, 4100000, TRUE)>>
    /\ Selection.mode = "extrapolated"
    /\ Selection.logic = "within_range_interpolation"

-----------------------------------------------------------------------------
(* Properties of repair_zip_ri_ma (SpecZip)                                *)

\* the raw address as the heuristics see it, and its number tokens
ZipInput == Strip(vin)
Zip5Tokens(s) == {a \in 1..Len(s) : NumberTokenAt(s, a, 5)}
Zip4Tokens(s) == {a \in 1..Len(s) : NumberTokenAt(s, a, 4)}
Zip5Texts(s) == {SubSeq(s, a, a + 4) : a \in Zip5Tokens(s)}
TrailingAccepted == TrailingMatch(ZipInput) # 0 /\ ~MarkerBefore(ZipInput, TrailingMatch(ZipInput))
AfterStateAccepted ==
    AfterStateMatch(ZipInput) # 0 /\ ~MarkerBefore(ZipInput, AfterStateMatch(ZipInput))
BeforeStateAccepted ==
    BeforeStateMatch(ZipInput) # 0 /\ ~MarkerBefore(ZipInput, BeforeStateMatch(ZipInput))

\* C22: the heuristics are tried in the order 5-digit token, trailing 4-digit
\* token, state then 4 digits, 4 digits then state, and the first that accepts
\* decides; when the raw address has a 5-digit token (with or without a
\* 4-digit extension) zip5 is the first such token as written and no 4-digit
\* token is zero-padded: the cleaned address has no 5-digit token that the
\* raw address did not have, and no more digits than it
C22_FiveDigitTokenFirst ==
    vout # <<>> =>
        /\ (vout[1].zip_source = "zip5") = (Zip5Tokens(ZipInput) # {})
        /\ (vout[1].zip_source = "zip4_trailing") =
               (Zip5Tokens(ZipInput) = {} /\ TrailingAccepted)
        /\ (vout[1].zip_source = "zip4_after_state") =
               (Zip5Tokens(ZipInput) = {} /\ ~TrailingAccepted /\ AfterStateAccepted)
        /\ (vout[1].zip_source = "zip4_before_state") =
               (/\ Zip5Tokens(ZipInput) = {} /\ ~TrailingAccepted
                /\ ~AfterStateAccepted /\ BeforeStateAccepted)
        /\ Zip5Tokens(ZipInput) # {} =>
               /\ vout[1].zip5 = SubSeq(ZipInput, Min(Zip5Tokens(ZipInput)),
                                        Min(Zip5Tokens(ZipInput)) + 4)
               /\ Zip5Texts(vout[1].cleaned_address) \subseteq Zip5Texts(ZipInput)
               /\ Len(DigitsOf(vout[1].cleaned_address)) <= Len(DigitsOf(ZipInput))

\* a 5-digit token and, after it, a 4-digit token that ends the address
C22_Witness ==
    /\ vout # <<>>
    /\ Zip5Tokens(ZipInput) # {}
    /\ TrailingAccepted
    /\ vout[1].zip5 = <<"0","2","8","3","5">>
    /\ vout[1].zip_source = "zip5"

\* the address ends in a state token and the 4-digit token 2835, in either
\* order; ZipAt is where the token starts
EndsStateThenZip(s) ==
    /\ Len(s) > 4 /\ NumberTokenAt(s, Len(s) - 3, 4)
    /\ SubSeq(s, Len(s) - 3, Len(s)) = <<"2","8","3","5">>
    /\ \E p \in 1..Len(s) :
           StateTokenEnd(s, p) # 0 /\ FirstWordAfter(s, StateTokenEnd(s, p)) = Len(s) - 3
EndsZipThenState(s) ==
    \E a \in Zip4Tokens(s) :
        /\ SubSeq(s, a, a + 3) = <<"2","8","3","5">>
        /\ FirstWordAfter(s, a + 3) # 0
        /\ StateTokenEnd(s, FirstWordAfter(s, a + 3)) = Len(s)
ZipAt(s) ==
    IF EndsStateThenZip(s) THEN Len(s) - 3
    ELSE CHOOSE a \in Zip4Tokens(s) :
             /\ SubSeq(s, a, a + 3) = <<"2","8","3","5">>
             /\ FirstWordAfter(s, a + 3) # 0
             /\ StateTokenEnd(s, FirstWordAfter(s, a + 3)) = Len(s)
EndsInStateAndZip ==
    /\ Zip5Tokens(ZipInput) = {}
    /\ EndsStateThenZip(ZipInput) \/ EndsZipThenState(ZipInput)

\* C23: a raw address without a 5-digit token that ends in a state token and
\* 2835, in either order, yields zip5 "02835" with the token replaced where
\* it stands, unless a unit or PO-box marker directly precedes the token;
\* then no heuristic takes that token as the ZIP
C23_StateAndFourDigits ==
    (vout # <<>> /\ EndsInStateAndZip) =>
        IF MarkerBefore(ZipInput, ZipAt(ZipInput))
        THEN \/ vout[1].zip5 # <<"0","2","8","3","5">>
             \/ \E a \in Zip4Tokens(ZipInput) :
                    a # ZipAt(ZipInput) /\ SubSeq(ZipInput, a, a + 3) = <<"2","8","3","5">>
        ELSE /\ vout[1].zip5 = <<"0","2","8","3","5">>
             /\ vout[1].cleaned_address =
                    _replace_span_and_cleanup(ZipInput, ZipAt(ZipInput), ZipAt(ZipInput) + 3,
                                              <<"0","2","8","3","5">>)

-----------------------------------------------------------------------------
(* The final error of a cascade that accepted nothing (SpecCascade)        *)

\* the cascade ran and returned without coordinates
CascadeFailed ==
    {i \in Returned : st[i].search_details # <<>> /\ ~st[i].address_cache_used
                      /\ st[i].latitude = <<>>}
LastDetail(i) == st[i].search_details[Len(st[i].search_details)]
\* the errors the search-service queries of the resolution returned, in order
QueryErrors(i) ==
    SelectSeq(st[i].search_details,
              LAMBDA d : d.attempted /\ d.search_name # "tiger_extrapolate_snap")
LastQueryError(i) ==
    IF QueryErrors(i) = <<>> THEN <<>> ELSE QueryErrors(i)[Len(QueryErrors(i))].error
NoFuzzyMatch(i) == LastDetail(i).result_check_reason = <<"no_fuzzy_match">>
TigerLast(i) == LastDetail(i).search_name = "tiger_extrapolate_snap"

\* C24 as claimed: when nothing was accepted the final error is that of the
\* last step of the cascade that failed: the no-fuzzy-match error when no
\* road cleared the threshold, the TIGER error when the fallback failed
C24_LastFailedStepError ==
    \A i \in CascadeFailed :
        /\ NoFuzzyMatch(i) => st[i].final_error = <<"No fuzzy match for road">>
        /\ TigerLast(i) => st[i].final_error = LastDetail(i).error

\* C24: when nothing was accepted and the TIGER fallback ran, the final
\* error is the fallback's; otherwise it is the error of the last
\* search-service query issued, followed by the road-store error when the
\* lookup failed, and the reason of strategy 3 (no fuzzy match, missing street
\* or zip, "No result") only when no query had been issued
C24_FinalError ==
    \A i \in CascadeFailed :
        IF TigerLast(i) THEN st[i].final_error = LastDetail(i).error
        ELSE IF NoFuzzyMatch(i)
        THEN st[i].final_error = IF LastQueryError(i) # <<>> THEN LastQueryError(i)
                                 ELSE <<"No fuzzy match for road">>
        ELSE IF st[i].postcode_lookup_error # ""
        THEN st[i].final_error =
                 (IF LastQueryError(i) # <<>> THEN LastQueryError(i) ELSE <<"No result">>)
                     \o <<"; ", st[i].postcode_lookup_error>>
        ELSE st[i].final_error = IF LastQueryError(i) # <<>> THEN LastQueryError(i)
                                 ELSE <<"zip_street_match_nsz, missing street or zip">>

\* a query of strategy 1 or 2 failed, then no road cleared the threshold
C24_Witness ==
    \E i \in CascadeFailed :
        /\ NoFuzzyMatch(i)
        /\ LastQueryError(i) # <<>>
        /\ st[i].final_error = LastQueryError(i)

-----------------------------------------------------------------------------
(* A blank raw address (SpecDirect)                                        *)

BlankInput == {i \in Resolutions : st[i].pc # "queued" /\ Strip(st[i].input) = <<>>}

\* C25: a raw address that is blank after trimming ends the resolution at
\* once with the Empty address error: it is never in the tagging stage or the
\* cascade, no bad-address rewrite, cache lookup, parser call or external
\* call is recorded, the coordinates are empty, and no row for it is in the
\* cache or handed to the batch loop
C25_EmptyAddress ==
    \A i \in BlankInput :
        /\ st[i].pc \in {"finish", "done", "consumed"}
        /\ st[i].error = <<"Empty address">>
        /\ ~st[i].bad_address_lookup_used /\ ~st[i].address_cache_used
        /\ st[i].tag_calls = <<>> /\ st[i].calls = <<>> /\ st[i].search_details = <<>>
        /\ st[i].latitude = <<>> /\ st[i].longitude = <<>>
        /\ st[i].cache_row = <<>>
        /\ _normalize_cache_key(st[i].input) \notin DOMAIN cache
        /\ \A p \in 1..Len(cacheFile) :
               _normalize_cache_key(cacheFile[p].address_raw) # _normalize_cache_key(st[i].input)

\* a blank address returned, after another address was resolved and cached
C25_Witness ==
    \E i \in BlankInput :
        /\ st[i].pc = "done"
        /\ st[i].final_error = <<"Empty address">>
        /\ \E j \in Returned : j # i /\ st[j].calls # <<>>

-----------------------------------------------------------------------------
(* Properties of the fuzzy road matcher (SpecFuzzy)                        *)

FuzzyScore(k) ==
    RoadScore(vin.target_road, vin.candidates[k].name, vin.candidates[k].lib)
\* target and candidate are the same text once expanded and canonicalized
SameRoad(k) ==
    /\ canon_tokens(expand_abbreviations_in_road(vin.target_road)) # <<>>
    /\ canon_tokens(expand_abbreviations_in_road(vin.target_road)) =
           canon_tokens(expand_abbreviations_in_road(vin.candidates[k].name))

\* C26: the matcher returns a candidate only if its score is at least
\* fuzzy_threshold; the candidate returned has the highest score of all and
\* is given as the road store spelled it; none is returned when the best score
\* is below the threshold or there is no candidate; a candidate equal to the
\* target after expansion and canonicalization clears the threshold
C26_FuzzyMatch ==
    vout # <<>> =>
        \E scores \in {[k \in 1..Len(vin.candidates) |-> FuzzyScore(k)]} :
            /\ vout[1] # <<>> =>
                   \E k \in 1..Len(vin.candidates) :
                       /\ vout[1] = <<vin.candidates[k].name>>
                       /\ scores[k] >= fuzzy_threshold
                       /\ \A j \in 1..Len(vin.candidates) : scores[j] <= scores[k]
            /\ (\A k \in 1..Len(vin.candidates) : scores[k] < fuzzy_threshold) => vout[1] = <<>>
            /\ \A k \in 1..Len(vin.candidates) :
                   SameRoad(k) => scores[k] >= fuzzy_threshold /\ vout[1] # <<>>

\* "Main St" against a better-scored other road first and "Main Street" second
C26_Witness ==
    /\ vout # <<>>
    /\ Len(vin.candidates) = 2
    /\ vin.target_road = <<"M","a","i","n"," ","S","t">>
    /\ ~SameRoad(1) /\ FuzzyScore(1) >= fuzzy_threshold
    /\ vin.candidates[2].name = <<"M","a","i","n"," ","S","t","r","e","e","t">>
    /\ vout[1] = <<<<"M","a","i","n"," ","S","t","r","e","e","t">>>>

-----------------------------------------------------------------------------
(* When the TIGER fallback runs (SpecCascade)                              *)

\* the position of the fallback's entry in the trace, 0 when it did not run
TigerEntry(i) ==
    IF \E k \in 1..Len(st[i].search_details) :
           st[i].search_details[k].search_name = "tiger_extrapolate_snap"
    THEN Min({k \in 1..Len(st[i].search_details) :
                 st[i].search_details[k].search_name = "tiger_extrapolate_snap"})
    ELSE 0
\* the entry before the fallback: the last one while the fallback is about to run
BeforeTiger(i) ==
    st[i].search_details[IF TigerEntry(i) = 0 THEN Len(st[i].search_details)
                         ELSE TigerEntry(i) - 1]
ClearedThreshold(road) ==
    \E db \in DCascade.db :
        /\ db.kind = "ok"
        /\ \E k \in 1..Len(db.roads) :
               db.roads[k].name = road /\ db.roads[k].score >= fuzzy_threshold

\* C27: the TIGER fallback runs only after strategy 3 found a road at or above
\* the fuzzy threshold in the road store and its re-query with that road was
\* issued and not accepted: the entry before the fallback's is that re-query,
\* strategy 3 has no skipped entry, the road-store lookup did not fail; the
\* re-query was made of the house number, the matched road and the ZipCode,
\* and an accepted fallback records the same ZipCode and road as its query
C27_TigerAfterRequery ==
    \A i \in Resolutions :
        (st[i].pc = "tiger" \/ TigerEntry(i) # 0) =>
            /\ TigerEntry(i) # 1 /\ st[i].search_details # <<>>
            /\ BeforeTiger(i).search_name = "zip_street_match_nsz"
            /\ BeforeTiger(i).attempted
            /\ BeforeTiger(i).result_check # "accepted"
            /\ \A k \in 1..Len(st[i].search_details) :
                   st[i].search_details[k].result_status = "skipped" =>
                       st[i].search_details[k].search_name # "zip_street_match_nsz"
            /\ st[i].postcode_lookup_error = ""
            /\ \E a, b \in 1..Len(st[i].calls) :
                   /\ a < b
                   /\ st[i].calls[a] = "postcode_candidates"
                   /\ st[i].calls[b] = "zip_street_match_nsz"
            /\ ClearedThreshold(st[i].street_match)
            /\ st[i].pc = "tiger" =>
                   st[i].query = SelectSeq(<<st[i].tags.AddressNumber, st[i].street_match,
                                             st[i].tags.ZipCode>>, LAMBDA part : part # <<>>)
            /\ st[i].method = "tiger_extrapolate_snap" /\ st[i].latitude # <<>> =>
                   st[i].query = <<st[i].tags.ZipCode, st[i].street_match,
                                   st[i].tags.AddressNumber>>

\* the fallback ran after a rejected re-query and found the point
C27_Witness ==
    \E i \in Returned :
        /\ TigerEntry(i) > 1
        /\ BeforeTiger(i).result_check = "rejected"
        /\ st[i].method = "tiger_extrapolate_snap"
        /\ st[i].latitude # <<>>

-----------------------------------------------------------------------------
(* The validation loop of one request (SpecCascade)                        *)

\* the resolutions whose last trace entry is a search-service request that
\* returned candidates: response holds the candidates of that request
JustValidated ==
    {i \in Resolutions :
        /\ st[i].search_details # <<>> /\ ~st[i].address_cache_used
        /\ LastDetail(i).attempted
        /\ LastDetail(i).search_name # "tiger_extrapolate_snap"
        /\ LastDetail(i).result_status = "returned"}
\* the validator's decision on each candidate of the response
Decisions(i) ==
    [j \in 1..Len(st[i].response) |->
        nominatim_result_check(st[i].response[j], st[i].tags.ZipCode, st[i].tags.PlaceName,
                               <<>>)]
Passing(i) == {j \in 1..Len(st[i].response) : Decisions(i)[j].accepted}

\* C28: the candidates of a response are validated in the order returned; the
\* accepted one is the first that passes, every candidate before it is
\* recorded as rejected with its reasons and none after it is recorded; when
\* none passes all are recorded and the error of the request lists their
\* rejection reasons in order
C28_FirstPassingAccepted ==
    \A i \in JustValidated :
        /\ LastDetail(i).number_results = Len(st[i].response)
        /\ \A j \in 1..Len(LastDetail(i).results) :
               /\ LastDetail(i).results[j].result_index = j - 1
               /\ LastDetail(i).results[j].accepted = Decisions(i)[j].accepted
               /\ LastDetail(i).results[j].rejection_reason = Decisions(i)[j].reasons
        /\ IF Passing(i) # {}
           THEN /\ LastDetail(i).result_check = "accepted"
                /\ LastDetail(i).accepted_result_index = Min(Passing(i)) - 1
                /\ Len(LastDetail(i).results) = Min(Passing(i))
                /\ st[i].latitude = st[i].response[Min(Passing(i))].lat
                /\ st[i].longitude = st[i].response[Min(Passing(i))].lon
           ELSE /\ LastDetail(i).result_check = "rejected"
                /\ Len(LastDetail(i).results) = Len(st[i].response)
                /\ LastDetail(i).error =
                       <<"No acceptable results; rejected_reasons=">>
                           \o JoinBar([j \in 1..Len(st[i].response) |-> Decisions(i)[j].reasons])

\* the second candidate was accepted after the first was rejected
C28_Witness ==
    \E i \in JustValidated :
        /\ Len(st[i].response) >= 2
        /\ Passing(i) # {} /\ Min(Passing(i)) = 2
        /\ LastDetail(i).accepted_result_index = 1

-----------------------------------------------------------------------------
(* The two outcomes of a resolution (SpecCascade)                          *)

\* C29: a resolution that was not served from the cache ends in one of two
\* ways.  Found: latitude and longitude set, no error, search_successful,
\* search_method_accepted the strategy of the one trace entry marked
\* accepted, the result metadata those of that strategy and of these
\* coordinates.  Not found: latitude, longitude, display name and result
\* metadata empty, an error, search_successful false, search_method_accepted
\* "none", no trace entry marked accepted.
C29_TwoOutcomes ==
    \A i \in Returned :
        ~st[i].address_cache_used =>
            \/ /\ st[i].latitude # <<>> /\ st[i].longitude # <<>>
               /\ st[i].error = <<>> /\ st[i].final_error = <<>>
               /\ st[i].search_successful
               /\ st[i].search_method_accepted # "none"
               /\ AcceptedEntries(st[i]) = {Len(st[i].search_details)}
               /\ LastDetail(i).search_name = st[i].search_method_accepted
               /\ Len(st[i].result_metadata) = 1
               /\ st[i].result_metadata[1].search_name = st[i].search_method_accepted
               /\ st[i].result_metadata[1].lat = st[i].latitude
               /\ st[i].result_metadata[1].lon = st[i].longitude
               /\ st[i].result_metadata[1].display_name = st[i].nominatim_address
            \/ /\ st[i].latitude = <<>> /\ st[i].longitude = <<>>
               /\ st[i].error # <<>> /\ st[i].final_error = st[i].error
               /\ ~st[i].search_successful
               /\ st[i].search_method_accepted = "none"
               /\ AcceptedEntries(st[i]) = {}
               /\ st[i].nominatim_address = <<>>
               /\ st[i].result_metadata = <<>>

\* a resolution that found nothing after the candidates of two strategies
\* were rejected
C29_Witness ==
    /\ \E i \in Returned :
           /\ st[i].latitude = <<>>
           /\ \E a, b \in 1..Len(st[i].search_details) :
                  /\ a < b
                  /\ st[i].search_details[a].result_check = "rejected"
                  /\ st[i].search_details[b].result_check = "rejected"

-----------------------------------------------------------------------------
(* Properties of the shared cache (Spec, SpecDirect)                       *)

KeyOf(i) == _normalize_cache_key(rows[i])

\* two resolutions of one non-empty normalized raw address
SameKey(i, j) == i # j /\ KeyOf(i) # <<>> /\ KeyOf(i) = KeyOf(j)

\* what a resolution hands back to its caller
Result(i) ==
    [latitude |-> st[i].latitude, longitude |-> st[i].longitude,
     display_name |-> st[i].nominatim_address, method |-> st[i].method]

\* j began while i had begun and not yet returned, or the other way round
Overlapped(i, j) ==
    /\ st[i].pc # "queued" /\ st[j].pc # "queued"
    /\ (IF i < j THEN i \notin st[j].done_before ELSE j \notin st[i].done_before)

\* C1: of the workers resolving one key concurrently at most one issues
\* search-service or road-store calls, and all of them return the same result.
C1_ExternalWorkOnce ==
    \A i, j \in Resolutions :
        (SameKey(i, j) /\ Overlapped(i, j)) =>
            /\ ~(st[i].calls # <<>> /\ st[j].calls # <<>>)
            /\ ({i, j} \subseteq Returned => Result(i) = Result(j))

\* i ran to its return before j began, and so did every earlier resolution of
\* the key, one after the other
InSequence(j) ==
    LET earlier == {k \in 1..(j - 1) : SameKey(k, j)}
    IN  /\ earlier # {}
        /\ earlier \subseteq st[j].done_before
        /\ \A k, l \in earlier : k < l => k \in st[l].done_before

\* C2: when a non-empty raw address is resolved again after its first
\* resolution has returned, the second call is a cache hit, issues no
\* search-service or road-store call, and returns the latitude, longitude,
\* display name and method of the first call, found or not found.
C2_SecondCallIsCacheHit ==
    \A j \in Resolutions :
        (st[j].pc # "queued" /\ InSequence(j)) =>
            /\ st[j].address_cache_used
            /\ st[j].calls = <<>>
            /\ st[j].pc \in {"finish", "done"}
            /\ \A k \in 1..(j - 1) : SameKey(k, j) => Result(j) = Result(k)

\* a second call, spelled differently, after a first one that found nothing
C2_Witness ==
    \E i, j \in Resolutions :
        /\ i < j /\ SameKey(i, j) /\ rows[i] # rows[j]
        /\ i \in st[j].done_before
        /\ st[j].pc = "done"
        /\ st[i].calls # <<>>
        /\ st[i].latitude = <<>>
        /\ st[i].method # ""
        /\ st[j].address_cache_used

\* the resolutions that ran to their return without a cache hit
Resolved == {i \in Returned : st[i].raw_address # <<>> /\ ~st[i].address_cache_used}

\* the key of the address the resolution worked on (the raw address, or what
\* the bad-address table made of it)
ResolvedKey(i) == _normalize_cache_key(st[i].raw_address)

C9_EntriesImmutable ==
    [][\A k \in DOMAIN cache : k \in DOMAIN cache' /\ cache'[k] = cache[k]]_vars

\* C10: once every row of the batch has been resolved and written, the cache
\* file holds at most one row for each normalized raw address.
C10_OneRowPerKey ==
    (\A i \in Resolutions : st[i].pc = "consumed") =>
        \A p, q \in DOMAIN cacheFile :
            p # q => _normalize_cache_key(cacheFile[p].address_raw)
                         # _normalize_cache_key(cacheFile[q].address_raw)

====
